---- MODULE Spec2Model ----
(***************************************************************************)
(* Model of the natural-to-json compiler:                                  *)
(*  - the IR optimizer (src/src/optimizer.py) and the code emitter         *)
(*    (src/src/codegen.py), with the callers that the test-suite           *)
(*    exercises: a structural copy taken before the call, a second         *)
(*    application of the optimizer to its own output, and the execution of *)
(*    the emitted program (specification Spec);                            *)
(*  - the symbol table of src/src/analyzer_core.py under any sequence of   *)
(*    calls (specification SpecTable);                                     *)
(*  - one run of analyze_and_transform: the error listener, the gates, the *)
(*    semantic analyzer, the IR builder and the JSON builder walking one   *)
(*    parse tree (specification SpecRun);                                  *)
(*  - a process that calls analyze_and_transform again after a run has     *)
(*    returned (specification SpecCalls);                                  *)
(*  - a call of the optimizer or a run that goes on to its end             *)
(*    (specification SpecFair).                                            *)
(***************************************************************************)
EXTENDS Integers, Sequences, FiniteSets, TLC

(* ------------------------------------------------------------------ *)
(* Bounds of the explored inputs                                        *)
(* ------------------------------------------------------------------ *)
MaxLen == 3

(* ------------------------------------------------------------------ *)
(* Python values carried by an instruction (args[-1]).                  *)
(* A tagged record so that values of different Python types compare.    *)
(* ------------------------------------------------------------------ *)
PyInt(n) == [py |-> "int", n |-> n, s |-> ""]
PyStr(s) == [py |-> "str", n |-> 0, s |-> s]
PyBool(b) == [py |-> "bool", n |-> IF b THEN 1 ELSE 0, s |-> ""]
PyNone == [py |-> "none", n |-> 0, s |-> ""]

(* Python truthiness of a value, as used by `"True" if valor else ...` *)
Truthy(v) ==
  CASE v.py = "int" -> v.n # 0
    [] v.py = "bool" -> v.n # 0
    [] v.py = "str" -> v.s # ""
    [] OTHER -> FALSE

(* ------------------------------------------------------------------ *)
(* Instructions: {"opcode": ..., "args": [...]}                          *)
(* ------------------------------------------------------------------ *)
Instr(opcode, args) == [opcode |-> opcode, args |-> args]

Names == {"A", "B"}
Keys == {"x", "y"}
TypedValues == { <<"NUMBER", PyInt(1)>>, <<"STRING", PyStr("a")>>, <<"BOOLEAN", PyBool(TRUE)>> }

CreateInstrs ==
  { Instr(op, <<n>>) : op \in {"IR_CREATE_OBJECT", "IR_CREATE_LIST"}, n \in Names }
SetInstrs ==
  { Instr("IR_SET_PROPERTY", <<n, k, tv[1], tv[2]>>) : n \in Names, k \in Keys, tv \in TypedValues }
AppendInstrs ==
  { Instr("IR_APPEND_LIST", <<n, tv[1], tv[2]>>) : n \in Names, tv \in TypedValues }
(* an opcode outside the instruction set known to the optimizer *)
UnknownInstrs == { Instr("IR_NOP", <<"A">>) }

Instructions == CreateInstrs \cup SetInstrs \cup AppendInstrs \cup UnknownInstrs

SeqsUpTo(S, n) == UNION { [1..k -> S] : k \in 0..n }

(* ------------------------------------------------------------------ *)
(* optimizer.py                                                         *)
(* ------------------------------------------------------------------ *)

(* variant: the map is keyed by the property key alone, whatever the object *)
RECURSIVE last_writes_by_key(_, _)
last_writes_by_key(instructions, n) ==
  IF n = 0 THEN <<>>
  ELSE LET lw == last_writes_by_key(instructions, n - 1)
           instr == instructions[n]
       IN  IF instr.opcode = "IR_SET_PROPERTY"
           THEN [p \in DOMAIN lw \cup {<<instr.args[1], instr.args[2]>>} |->
                   IF p[2] = instr.args[2] THEN n ELSE lw[p]]
           ELSE lw

(* first loop of _remove_redundant_sets: last_writes[(obj, key)] = i,   *)
(* after the first n instructions have been visited                     *)
RECURSIVE last_writes(_, _)
last_writes(instructions, n) ==
  IF n = 0 THEN <<>>
  ELSE LET lw == last_writes(instructions, n - 1)
           instr == instructions[n]
       IN  IF instr.opcode = "IR_SET_PROPERTY"
           THEN (<<instr.args[1], instr.args[2]>> :> n) @@ lw
           ELSE lw

(* second loop of _remove_redundant_sets, after n instructions *)
RECURSIVE new_instructions(_, _, _)
new_instructions(instructions, lw, n) ==
  IF n = 0 THEN <<>>
  ELSE LET acc == new_instructions(instructions, lw, n - 1)
           instr == instructions[n]
       IN  IF instr.opcode = "IR_SET_PROPERTY"
           THEN IF lw[<<instr.args[1], instr.args[2]>>] = n
                THEN Append(acc, instr)
                ELSE acc
           ELSE Append(acc, instr)

(* variant: the map records the first write of each pair, not the last *)
RECURSIVE first_writes(_, _)
first_writes(instructions, n) ==
  IF n = 0 THEN <<>>
  ELSE LET fw == first_writes(instructions, n - 1)
           instr == instructions[n]
       IN  IF instr.opcode = "IR_SET_PROPERTY" /\ <<instr.args[1], instr.args[2]>> \notin DOMAIN fw
           THEN (<<instr.args[1], instr.args[2]>> :> n) @@ fw
           ELSE fw

remove_redundant_sets_keep_first(instructions) ==
  new_instructions(instructions,
                   first_writes(instructions, Len(instructions)),
                   Len(instructions))

_remove_redundant_sets(instructions) ==
  new_instructions(instructions,
                   last_writes(instructions, Len(instructions)),
                   Len(instructions))

IsCreation(instr) == instr.opcode \in {"IR_CREATE_OBJECT", "IR_CREATE_LIST"}
IsOperation(instr) == instr.opcode \in {"IR_SET_PROPERTY", "IR_APPEND_LIST"}
IsOther(instr) == ~IsCreation(instr) /\ ~IsOperation(instr)

(* variant: each bucket is filled at the front (insert(0, op)) *)
RECURSIVE ops_by_entity_prepend(_, _)
ops_by_entity_prepend(operations, n) ==
  IF n = 0 THEN <<>>
  ELSE LET obe == ops_by_entity_prepend(operations, n - 1)
           op == operations[n]
           entity_name == op.args[1]
       IN  IF entity_name \notin DOMAIN obe
           THEN (entity_name :> <<op>>) @@ obe
           ELSE (entity_name :> (<<op>> \o obe[entity_name])) @@ obe

(* ops_by_entity after the first n operations: entity name -> list *)
RECURSIVE ops_by_entity(_, _)
ops_by_entity(operations, n) ==
  IF n = 0 THEN <<>>
  ELSE LET obe == ops_by_entity(operations, n - 1)
           op == operations[n]
           entity_name == op.args[1]
       IN  IF entity_name \notin DOMAIN obe
           THEN (entity_name :> <<op>>) @@ obe
           ELSE (entity_name :> Append(obe[entity_name], op)) @@ obe

(* variant: the bucket is emitted before its creation instruction *)
RECURSIVE group_creations_ops_first(_, _, _)
group_creations_ops_first(creations, obe, n) ==
  IF n = 0 THEN [grouped |-> <<>>, processed |-> {}]
  ELSE LET st == group_creations_ops_first(creations, obe, n - 1)
           create_instr == creations[n]
           entity_name == create_instr.args[1]
       IN  IF entity_name \in DOMAIN obe
           THEN [grouped |-> (st.grouped \o obe[entity_name]) \o <<create_instr>>,
                 processed |-> st.processed \cup {entity_name}]
           ELSE [grouped |-> Append(st.grouped, create_instr),
                 processed |-> st.processed]

(* the loop over creations: [grouped_instructions, processed_entities] *)
RECURSIVE group_creations(_, _, _)
group_creations(creations, obe, n) ==
  IF n = 0 THEN [grouped |-> <<>>, processed |-> {}]
  ELSE LET st == group_creations(creations, obe, n - 1)
           create_instr == creations[n]
           entity_name == create_instr.args[1]
       IN  IF entity_name \in DOMAIN obe
           THEN [grouped |-> Append(st.grouped, create_instr) \o obe[entity_name],
                 processed |-> st.processed \cup {entity_name}]
           ELSE [grouped |-> Append(st.grouped, create_instr),
                 processed |-> st.processed]

(* variant: the loop over orphan operations is missing *)
orphan_operations_skipped(operations, processed) == <<>>

(* the loop over orphan operations *)
orphan_operations(operations, processed) ==
  SelectSeq(operations, LAMBDA op : op.args[1] \notin processed)

(* variant: the `if others` early return is missing *)
group_instructions_ignoring_others(instructions) ==
  LET creations == SelectSeq(instructions, IsCreation)
      operations == SelectSeq(instructions, IsOperation)
      obe == ops_by_entity(operations, Len(operations))
      st == group_creations(creations, obe, Len(creations))
  IN  st.grouped \o orphan_operations(operations, st.processed)

(* variant: all the operations are emitted first, the creations after them *)
group_instructions_operations_first(instructions) ==
  LET creations == SelectSeq(instructions, IsCreation)
      operations == SelectSeq(instructions, IsOperation)
      others == SelectSeq(instructions, IsOther)
  IN  IF others # <<>>
      THEN instructions
      ELSE operations \o creations

_group_instructions(instructions) ==
  LET creations == SelectSeq(instructions, IsCreation)
      operations == SelectSeq(instructions, IsOperation)
      others == SelectSeq(instructions, IsOther)
  IN  IF others # <<>>
      THEN instructions
      ELSE LET obe == ops_by_entity(operations, Len(operations))
               st == group_creations(creations, obe, Len(creations))
           IN  st.grouped \o orphan_operations(operations, st.processed)

(* [instr.copy() for instr in ir_instructions] *)
copy_instructions(ir) == [i \in 1..Len(ir) |-> Instr(ir[i].opcode, ir[i].args)]

optimize_ir(ir) ==
  IF ir = <<>> THEN <<>>
  ELSE _group_instructions(_remove_redundant_sets(copy_instructions(ir)))

(* ------------------------------------------------------------------ *)
(* codegen.py                                                           *)
(* ------------------------------------------------------------------ *)

(* The text of a Python literal, kept as the conversion that produced   *)
(* it and the value it was applied to: repr(valor), "True", "False",    *)
(* str(valor).  "True" and "False" carry no value.                      *)
Literal(text, of) == [text |-> text, of |-> of]

format_value(valor, tipo) ==
  IF tipo = "STRING" THEN Literal("repr", valor)
  ELSE IF tipo = "BOOLEAN"
       THEN IF Truthy(valor) THEN Literal("True", PyNone) ELSE Literal("False", PyNone)
       ELSE Literal("str", valor)

(* one line of generated code per instruction; None for an opcode the  *)
(* if/elif chain does not handle (no line is appended)                  *)
Line(form, nombre, clave, valor_fmt) ==
  [form |-> form, nombre |-> nombre, clave |-> clave, valor_fmt |-> valor_fmt]

NoLiteral == Literal("", PyNone)

code_line(instr) ==
  LET opcode == instr.opcode
      args == instr.args
  IN  IF opcode = "IR_CREATE_OBJECT"
      THEN << Line("{nombre} = {}", args[1], "", NoLiteral) >>
      ELSE IF opcode = "IR_SET_PROPERTY"
      THEN << Line("{nombre}[{clave}] = {valor_fmt}", args[1], args[2],
                   format_value(args[4], args[3])) >>
      ELSE IF opcode = "IR_CREATE_LIST"
      THEN << Line("{nombre} = []", args[1], "", NoLiteral) >>
      ELSE IF opcode = "IR_APPEND_LIST"
      THEN << Line("{nombre}.append({valor_fmt})", args[1], "",
                   format_value(args[3], args[2])) >>
      ELSE << >>

RECURSIVE python_code(_, _)
python_code(ir, n) ==
  IF n = 0 THEN << Line("# --- Codigo Generado ---", "", "", NoLiteral) >>
  ELSE python_code(ir, n - 1) \o code_line(ir[n])

generate_python_from_ir(ir) == python_code(ir, Len(ir))

(* ------------------------------------------------------------------ *)
(* exec(code, {}, env): the Python statements the emitter can produce   *)
(* ------------------------------------------------------------------ *)

(* the value a literal evaluates to; "raise" when it is no literal:     *)
(* str() of a string is a bare identifier                               *)
eval_literal(lit) ==
  IF lit.text = "True" THEN [raise |-> FALSE, value |-> PyBool(TRUE)]
  ELSE IF lit.text = "False" THEN [raise |-> FALSE, value |-> PyBool(FALSE)]
  ELSE IF lit.text = "repr" THEN [raise |-> FALSE, value |-> lit.of]
  ELSE IF lit.of.py = "str" THEN [raise |-> TRUE, value |-> PyNone]
  ELSE [raise |-> FALSE, value |-> lit.of]

PyDict(props) == [type |-> "dict", props |-> props, items |-> <<>>]
PyList(items) == [type |-> "list", props |-> <<>>, items |-> items]

(* one statement executed in env; st = [env, raised] *)
exec_line(st, line) ==
  IF st.raised THEN st
  ELSE IF line.form = "# --- Codigo Generado ---" THEN st
  ELSE IF line.form = "{nombre} = {}"
  THEN [st EXCEPT !.env = (line.nombre :> PyDict(<<>>)) @@ st.env]
  ELSE IF line.form = "{nombre} = []"
  THEN [st EXCEPT !.env = (line.nombre :> PyList(<<>>)) @@ st.env]
  ELSE LET v == eval_literal(line.valor_fmt)
       IN  IF v.raise \/ line.nombre \notin DOMAIN st.env
           THEN [st EXCEPT !.raised = TRUE]           \* NameError
           ELSE LET target == st.env[line.nombre]
                IN  IF line.form = "{nombre}[{clave}] = {valor_fmt}"
                    THEN IF target.type = "dict"
                         THEN [st EXCEPT !.env = (line.nombre :>
                                  PyDict((line.clave :> v.value) @@ target.props)) @@ st.env]
                         ELSE [st EXCEPT !.raised = TRUE]   \* TypeError: list index
                    ELSE IF target.type = "list"
                         THEN [st EXCEPT !.env = (line.nombre :>
                                  PyList(Append(target.items, v.value))) @@ st.env]
                         ELSE [st EXCEPT !.raised = TRUE]   \* AttributeError: dict.append

RECURSIVE exec_lines(_, _)
exec_lines(code, n) ==
  IF n = 0 THEN [env |-> <<>>, raised |-> FALSE]
  ELSE exec_line(exec_lines(code, n - 1), code[n])

exec(code) == exec_lines(code, Len(code))

(* ------------------------------------------------------------------ *)
(* analyzer_core.py: SymbolEntry and SymbolTable                        *)
(* ------------------------------------------------------------------ *)
MaxLine == 2

(* identifiers the calls and the parse trees draw their names from; the
   lower-case and mixed-case ones are spellings of keywords *)
Identifiers == {"A", "B", "crear", "Crear", "CREAR", "Lista", "lista"}

(* str.upper() on the identifiers above and on the keywords themselves *)
upper(nombre) ==
  CASE nombre = "crear" -> "CREAR"
    [] nombre = "Crear" -> "CREAR"
    [] nombre = "Lista" -> "LISTA"
    [] nombre = "lista" -> "LISTA"
    [] nombre = "a" -> "A"
    [] nombre = "b" -> "B"
    [] OTHER -> nombre

(* analyzer_core.py 59-61 *)
reserved_words == {"CREAR", "OBJETO", "LISTA", "CON", "ELEMENTOS", "VERDADERO", "FALSO"}

(* a dict with no key *)
EmptyDict == <<>>

(* the metadata dicts the analyzer passes to declare *)
MetaObjeto == [propiedades |-> EmptyDict]
MetaLista == [tipos_elementos |-> <<>>]

(* analyzer_core.py 44-49; "metadatos or {}" turns None and {} into {} *)
SymbolEntry(nombre, tipo_entidad, linea, columna, metadatos) ==
  [nombre |-> nombre, tipo_entidad |-> tipo_entidad, linea |-> linea,
   columna |-> columna,
   metadatos |-> IF metadatos = PyNone THEN EmptyDict ELSE metadatos]

(* analyzer_core.py 57-61: SymbolTable.__init__ *)
SymbolTable == [symbols |-> EmptyDict, reserved_words |-> reserved_words]

(* variant: the membership test without the upper-casing *)
is_reserved_exact(table, nombre) == nombre \in table.reserved_words

(* analyzer_core.py 63-65 *)
is_reserved(table, nombre) == upper(nombre) \in table.reserved_words

(* analyzer_core.py 67-69: dict.get, None when absent *)
lookup(table, nombre) ==
  IF nombre \in DOMAIN table.symbols THEN table.symbols[nombre] ELSE PyNone

(* variant: declare without the membership test, the later record wins *)
declare_overwriting(table, nombre, tipo_entidad, linea, columna, metadatos) ==
  [table |-> [table EXCEPT !.symbols =
                [n \in DOMAIN table.symbols \cup {nombre} |->
                   IF n = nombre
                   THEN SymbolEntry(nombre, tipo_entidad, linea, columna, metadatos)
                   ELSE table.symbols[n]]],
   ret |-> nombre \notin DOMAIN table.symbols]

(* analyzer_core.py 71-82: the table after the call and the returned flag *)
declare(table, nombre, tipo_entidad, linea, columna, metadatos) ==
  IF nombre \in DOMAIN table.symbols
  THEN [table |-> table, ret |-> FALSE]
  ELSE [table |-> [table EXCEPT !.symbols =
                     [n \in DOMAIN table.symbols \cup {nombre} |->
                        IF n = nombre
                        THEN SymbolEntry(nombre, tipo_entidad, linea, columna, metadatos)
                        ELSE table.symbols[n]]],
        ret |-> TRUE]

(* analyzer_core.py 84-94 *)
get_debug_info(table) ==
  [n \in DOMAIN table.symbols |->
     [tipo_entidad |-> table.symbols[n].tipo_entidad,
      metadatos |-> table.symbols[n].metadatos]]

(* ------------------------------------------------------------------ *)
(* The parse tree handed over by the parser: a sequence of commands.    *)
(* A literal is the token under a valor node; its text is the sequence  *)
(* of its characters.                                                   *)
(* ------------------------------------------------------------------ *)
MaxNodes == 5

Token(tok, text) == [tok |-> tok, text |-> text]

Valores ==
  { Token("NUMERO_ENTERO", <<"3", "0">>),
    Token("STRING", <<"\"", "a", "\"">>),
    Token("KW_VERDADERO", <<"V">>) }

Propiedad(clave, valor) == [clave |-> clave, valor |-> valor]

(* edad and activo, each with a literal of the type its name suggests and
   with one of another type *)
Propiedades ==
  { Propiedad("edad", Token("NUMERO_ENTERO", <<"3", "0">>)),
    Propiedad("edad", Token("STRING", <<"\"", "a", "\"">>)),
    Propiedad("activo", Token("KW_VERDADERO", <<"V">>)),
    Propiedad("activo", Token("NUMERO_ENTERO", <<"3", "0">>)) }

(* the names a command of a parse tree declares (IDENTIFICADOR tokens) *)
TreeNames == {"A", "B", "crear"}

Comando(rule, nombre, line, column, body) ==
  [rule |-> rule, nombre |-> nombre, line |-> line, column |-> column, body |-> body]

(* the commands with k properties or k elements, before they are placed
   on a line *)
Comandos(k) ==
  { Comando("crear_objeto_cmd", n, 0, 0, b) : n \in TreeNames, b \in [1..k -> Propiedades] }
  \cup
  { Comando("crear_lista_cmd", n, 0, 0, b) : n \in TreeNames, b \in [1..k -> Valores] }

(* the command sequences of at most n nodes, a node being a command or one
   of its properties or elements; a command has at least one *)
RECURSIVE Programas(_)
Programas(n) ==
  { <<>> } \cup
  UNION { { <<c>> \o rest : c \in Comandos(k), rest \in Programas(n - 1 - k) } : k \in 1..(n - 1) }

(* the sequences of three commands of one property or element each: the
   shortest scripts that declare a name more than twice *)
Ternas == { <<a, b, c>> : a \in Comandos(1), b \in Comandos(1), c \in Comandos(1) }

(* one command per line, the command of line i starting in column i - 1 *)
ParseTrees ==
  { [i \in DOMAIN s |-> [s[i] EXCEPT !.line = i, !.column = i - 1]] :
      s \in Programas(MaxNodes) \cup Ternas }

(* the callbacks of one ParseTreeWalker.walk over the tree, in order;
   cmd and i locate the context the callback receives *)
Event(ev, cmd, i) == [ev |-> ev, cmd |-> cmd, i |-> i]

RECURSIVE body_events(_, _, _)
body_events(tree, cmd, n) ==
  IF n = 0 THEN <<>>
  ELSE body_events(tree, cmd, n - 1) \o
       ( IF tree[cmd].rule = "crear_objeto_cmd"
         THEN << Event("enterPropiedad", cmd, n), Event("enterValor", cmd, n),
                 Event("exitValor", cmd, n), Event("exitPropiedad", cmd, n) >>
         ELSE << Event("enterValor", cmd, n), Event("exitValor", cmd, n) >> )

RECURSIVE walk_events(_, _)
walk_events(tree, n) ==
  IF n = 0 THEN <<>>
  ELSE walk_events(tree, n - 1) \o
       << Event(IF tree[n].rule = "crear_objeto_cmd"
                THEN "enterCrear_objeto_cmd" ELSE "enterCrear_lista_cmd", n, 0) >> \o
       body_events(tree, n, Len(tree[n].body)) \o
       << Event(IF tree[n].rule = "crear_objeto_cmd"
                THEN "exitCrear_objeto_cmd" ELSE "exitCrear_lista_cmd", n, 0) >>

(* the callbacks a listener overrides are the only ones that act *)
callbacks(tree, overridden) ==
  SelectSeq(walk_events(tree, Len(tree)), LAMBDA e : e.ev \in overridden)

(* the valor context a callback receives *)
valor_ctx(tree, e) ==
  IF tree[e.cmd].rule = "crear_objeto_cmd"
  THEN tree[e.cmd].body[e.i].valor
  ELSE tree[e.cmd].body[e.i]

(* isinstance(ctx.parentCtx, Items_listaContext) *)
parent_is_items_lista(tree, e) == tree[e.cmd].rule = "crear_lista_cmd"

(* analyzer_core.py 98-109 *)
get_value_type(valor) ==
  CASE valor.tok = "STRING" -> "STRING"
    [] valor.tok \in {"NUMERO_ENTERO", "NUMERO_DECIMAL"} -> "NUMBER"
    [] valor.tok \in {"KW_VERDADERO", "KW_FALSO"} -> "BOOLEAN"
    [] OTHER -> "UNKNOWN"

(* the Python string made of the given characters *)
str_of(chars) ==
  CASE chars = <<>> -> ""
    [] chars = <<"a">> -> "a"
    [] OTHER -> "?"

digit(c) ==
  CASE c = "0" -> 0 [] c = "1" -> 1 [] c = "2" -> 2 [] c = "3" -> 3 [] c = "4" -> 4
    [] c = "5" -> 5 [] c = "6" -> 6 [] c = "7" -> 7 [] c = "8" -> 8 [] OTHER -> 9

(* int(text) on a NUMERO_ENTERO *)
RECURSIVE int_of(_, _)
int_of(chars, n) ==
  IF n = 0 THEN 0 ELSE 10 * int_of(chars, n - 1) + digit(chars[n])

(* analyzer_core.py 385-395, 410-419, 516-526: the native value of a literal;
   getText()[1:-1] drops the quotes of a STRING (NUMERO_DECIMAL literals
   are outside the explored trees) *)
valor_nativo(valor) ==
  CASE valor.tok = "STRING" -> PyStr(str_of(SubSeq(valor.text, 2, Len(valor.text) - 1)))
    [] valor.tok = "NUMERO_ENTERO" -> PyInt(int_of(valor.text, Len(valor.text)))
    [] valor.tok = "KW_VERDADERO" -> PyBool(TRUE)
    [] valor.tok = "KW_FALSO" -> PyBool(FALSE)
    [] OTHER -> PyNone

(* Python None where a name is expected *)
NoneName == "<None>"

(* ------------------------------------------------------------------ *)
(* analyzer_core.py: CustomErrorListener                                *)
(* ------------------------------------------------------------------ *)
MaxSyntaxErrors == 2

(* analyzer_core.py 121-137 *)
CustomErrorListener ==
  [_lexer_errors |-> 0, _parser_errors |-> 0, _semantic_errors |-> 0,
   error_messages |-> <<>>]

(* one formatted entry of error_messages: "Error <tipo> en '<source>'
   (Linea <line>:Columna <column>): <detail>" *)
ErrorMessage(tipo, line, column, detail) ==
  [tipo |-> tipo, line |-> line, column |-> column, detail |-> detail]

(* the texts the analyzer passes to add_semantic_error: the name they quote
   and, for a redefinition, the kind and line of the earlier declaration *)
Detail(texto, nombre, tipo_previo, linea_previa) ==
  [texto |-> texto, nombre |-> nombre, tipo_previo |-> tipo_previo,
   linea_previa |-> linea_previa]

(* variant: the listener shifts the column it is given *)
add_semantic_error_shifting(listener, line, column, message) ==
  [listener EXCEPT !._semantic_errors = @ + 1,
                   !.error_messages =
                      Append(@, ErrorMessage("Semantico", line, column + 1, message))]

(* analyzer_core.py 151-157 *)
add_semantic_error(listener, line, column, message) ==
  [listener EXCEPT !._semantic_errors = @ + 1,
                   !.error_messages = Append(@, ErrorMessage("Semantico", line, column, message))]

(* the messages ANTLR hands to syntaxError, by the pattern they match *)
LexerMsgs == {"token recognition error at", "other"}
ParserMsgs == {"mismatched input", "extraneous input", "missing", "no viable alternative", "other"}

(* variant: a message already in the list is counted but not added again *)
syntaxError_dedup(listener, is_lexer_error, line, column, msg) ==
  LET user_column == column + 1
      detailed_msg ==
        IF is_lexer_error
        THEN IF msg = "token recognition error at"
             THEN "Caracter inesperado o no reconocido" ELSE "Error lexico general"
        ELSE CASE msg = "mismatched input" -> "Se encontro pero se esperaba"
               [] msg = "extraneous input" -> "Entrada adicional o fuera de lugar"
               [] msg = "missing" -> "Falta el simbolo/palabra clave"
               [] msg = "no viable alternative" -> "No se reconoce la estructura del comando"
               [] OTHER -> "Error de estructura"
      full_msg == ErrorMessage(IF is_lexer_error THEN "Lexico" ELSE "Sintactico",
                               line, user_column, Detail(detailed_msg, "", "", 0))
  IN  [listener EXCEPT
         !._lexer_errors = IF is_lexer_error THEN @ + 1 ELSE @,
         !._parser_errors = IF is_lexer_error THEN @ ELSE @ + 1,
         !.error_messages =
            IF \E k \in DOMAIN @ : @[k] = full_msg THEN @ ELSE Append(@, full_msg)]

(* analyzer_core.py 159-221 *)
syntaxError(listener, is_lexer_error, line, column, msg) ==
  LET user_column == column + 1
      detailed_msg ==
        IF is_lexer_error
        THEN IF msg = "token recognition error at"
             THEN "Caracter inesperado o no reconocido" ELSE "Error lexico general"
        ELSE CASE msg = "mismatched input" -> "Se encontro pero se esperaba"
               [] msg = "extraneous input" -> "Entrada adicional o fuera de lugar"
               [] msg = "missing" -> "Falta el simbolo/palabra clave"
               [] msg = "no viable alternative" -> "No se reconoce la estructura del comando"
               [] OTHER -> "Error de estructura"
  IN  [listener EXCEPT
         !._lexer_errors = IF is_lexer_error THEN @ + 1 ELSE @,
         !._parser_errors = IF is_lexer_error THEN @ ELSE @ + 1,
         !.error_messages =
            Append(@, ErrorMessage(IF is_lexer_error THEN "Lexico" ELSE "Sintactico",
                                   line, user_column,
                                   Detail(detailed_msg, "", "", 0)))]

(* analyzer_core.py 223-225 *)
get_total_errors(listener) ==
  listener._lexer_errors + listener._parser_errors + listener._semantic_errors

(* analyzer_core.py 227-241: "" when there is no message, else the framed
   list of the messages *)
get_error_summary_string(listener) ==
  IF listener.error_messages = <<>> THEN <<>>
  ELSE << ErrorMessage("Resumen", 0, 0, Detail("Resumen de Errores Detectados", "", "", 0)) >>
       \o listener.error_messages

(* ------------------------------------------------------------------ *)
(* analyzer_core.py: IRBuilderListener and JsonBuilderListener          *)
(* ------------------------------------------------------------------ *)

(* analyzer_core.py 358-361 *)
IRBuilderListener ==
  [ir_instructions |-> <<>>, current_obj_name |-> NoneName, current_list_name |-> NoneName]

(* analyzer_core.py 363-364: the instructions as dicts *)
get_instructions(builder) == builder.ir_instructions

(* analyzer_core.py 446-452; procesados holds the valor_procesado attribute
   that exitValor sets on a propiedad context *)
JsonBuilderListener ==
  [result_data |-> EmptyDict, current_object_name |-> NoneName,
   current_object_props |-> EmptyDict, current_list_name |-> NoneName,
   current_list_items |-> <<>>, current_key |-> NoneName, procesados |-> EmptyDict]

(* variant: d.setdefault(k, v), the first value of a key stays *)
dict_setdefault(d, k, v) == [x \in DOMAIN d \cup {k} |-> IF x \in DOMAIN d THEN d[x] ELSE v]

(* d[k] = v on a dict *)
dict_set(d, k, v) == [x \in DOMAIN d \cup {k} |-> IF x = k THEN v ELSE d[x]]

(* analyzer_core.py 463-541: one callback of the JSON builder *)
json_callback(jb, tree, e) ==
  LET ctx == tree[e.cmd] IN
  CASE e.ev = "enterCrear_objeto_cmd" ->
         [jb EXCEPT !.current_object_name = ctx.nombre, !.current_object_props = EmptyDict]
    [] e.ev = "exitCrear_objeto_cmd" ->
         [jb EXCEPT !.result_data =
                      IF jb.current_object_name # NoneName
                      THEN dict_set(@, jb.current_object_name, PyDict(jb.current_object_props))
                      ELSE @,
                    !.current_object_name = NoneName]
    [] e.ev = "enterPropiedad" ->
         [jb EXCEPT !.current_key = ctx.body[e.i].clave]
    [] e.ev = "exitPropiedad" ->
         [jb EXCEPT !.current_object_props =
                      IF jb.current_key # NoneName /\ <<e.cmd, e.i>> \in DOMAIN jb.procesados
                      THEN dict_set(@, jb.current_key, jb.procesados[<<e.cmd, e.i>>])
                      ELSE @,
                    !.current_key = NoneName]
    [] e.ev = "enterCrear_lista_cmd" ->
         [jb EXCEPT !.current_list_name = ctx.nombre, !.current_list_items = <<>>]
    [] e.ev = "exitCrear_lista_cmd" ->
         [jb EXCEPT !.result_data =
                      IF jb.current_list_name # NoneName
                      THEN dict_set(@, jb.current_list_name, PyList(jb.current_list_items))
                      ELSE @,
                    !.current_list_name = NoneName]
    [] e.ev = "exitValor" ->
         IF ~parent_is_items_lista(tree, e)
         THEN [jb EXCEPT !.procesados =
                 (<<e.cmd, e.i>> :> valor_nativo(valor_ctx(tree, e))) @@ @]
         ELSE [jb EXCEPT !.current_list_items = Append(@, valor_nativo(valor_ctx(tree, e)))]
    [] OTHER -> jb

(* the callbacks each listener overrides *)
SemanticCallbacks ==
  {"enterCrear_objeto_cmd", "exitCrear_objeto_cmd", "enterPropiedad",
   "enterCrear_lista_cmd", "exitCrear_lista_cmd", "enterValor"}

IRCallbacks ==
  {"enterCrear_objeto_cmd", "exitCrear_objeto_cmd", "exitPropiedad",
   "enterCrear_lista_cmd", "exitCrear_lista_cmd", "exitValor"}

JsonCallbacks ==
  {"enterCrear_objeto_cmd", "exitCrear_objeto_cmd", "enterPropiedad", "exitPropiedad",
   "enterCrear_lista_cmd", "exitCrear_lista_cmd", "exitValor"}

RECURSIVE json_walk(_, _, _)
json_walk(tree, events, n) ==
  IF n = 0 THEN JsonBuilderListener
  ELSE json_callback(json_walk(tree, events, n - 1), tree, events[n])

(* the value of json_output_string: None, or the dumped document *)
JsonNone == [py |-> "none", doc |-> EmptyDict]
JsonStr(data) == [py |-> "str", doc |-> data]

(* analyzer_core.py 733-735: walker.walk(json_builder, tree);
   json_builder.get_final_json_string() *)
get_final_json_string(tree) ==
  LET events == callbacks(tree, JsonCallbacks)
  IN  JsonStr(json_walk(tree, events, Len(events)).result_data)

(* ------------------------------------------------------------------ *)
(* State                                                                *)
(* ------------------------------------------------------------------ *)
VARIABLES
  ir_instructions,  \* the list passed to optimize_ir (owned by the caller)
  ir_copy,          \* the caller's structural copy taken before the call
  optimized,        \* optimize_ir's local variable
  result,           \* the list optimize_ir returned
  reoptimized,      \* optimize_ir(optimize_ir(x)), once the caller asked for it
  py_code,          \* the program emitted from the returned list
  env,              \* the environment after exec(py_code, {}, env), and whether it raised
  pc,               \* position of the caller / of optimize_ir
  symbol_table,     \* a SymbolTable: its symbols dict and its reserved words
  call,             \* the last call made on the symbol table by its client
  ret,              \* what that call returned
  tree,             \* analyze_and_transform: the parse tree parser.programa() returned
  error_listener,   \* the CustomErrorListener of the run
  current_symbol_name,  \* SemanticAnalyzer.current_symbol_name
  ir_builder,       \* the IRBuilderListener of the run
  ir_output,        \* analyze_and_transform's ir_output
  json_output_string,   \* analyze_and_transform's json_output_string
  symbols_debug_info,   \* analyze_and_transform's symbols_debug_info
  error_summary_output, \* analyze_and_transform's error_summary_output
  ppc,              \* position inside analyze_and_transform
  walk,             \* the callbacks the walk in progress has still to make
  after_other_run   \* whether the process ran analyze_and_transform before this run

opt_vars == <<ir_instructions, ir_copy, optimized, result, reoptimized, py_code, env, pc>>
table_vars == <<symbol_table, call, ret>>
run_vars == <<tree, error_listener, current_symbol_name, ir_builder, ir_output,
              json_output_string, symbols_debug_info, error_summary_output, ppc, walk,
              after_other_run>>
vars == <<opt_vars, table_vars, run_vars>>

(* no optimizer call in progress *)
OptIdle ==
  /\ ir_instructions = <<>>
  /\ ir_copy = <<>>
  /\ optimized = <<>>
  /\ result = <<>>
  /\ reoptimized = <<>>
  /\ py_code = <<>>
  /\ env = [env |-> <<>>, raised |-> FALSE]
  /\ pc = "idle"

NoCall == [op |-> "none", nombre |-> "", tipo_entidad |-> "", linea |-> 0,
           columna |-> 0, metadatos |-> EmptyDict]

(* no symbol table client *)
TableIdle ==
  /\ symbol_table = SymbolTable
  /\ call = NoCall
  /\ ret = PyNone

(* no run of analyze_and_transform *)
RunIdle ==
  /\ tree = <<>>
  /\ error_listener = CustomErrorListener
  /\ current_symbol_name = NoneName
  /\ ir_builder = IRBuilderListener
  /\ ir_output = <<>>
  /\ json_output_string = JsonNone
  /\ symbols_debug_info = EmptyDict
  /\ error_summary_output = <<>>
  /\ ppc = "idle"
  /\ walk = <<>>
  /\ after_other_run = FALSE

Init ==
  /\ ir_instructions \in SeqsUpTo(Instructions, MaxLen)
  /\ ir_copy = ir_instructions
  /\ optimized = <<>>
  /\ result = <<>>
  /\ reoptimized = <<>>
  /\ py_code = <<>>
  /\ env = [env |-> <<>>, raised |-> FALSE]
  /\ pc = "call"
  /\ TableIdle
  /\ RunIdle

(* optimizer.py 23-24: if not ir_instructions: return [] *)
ReturnEmpty ==
  /\ pc = "call"
  /\ ir_instructions = <<>>
  /\ result' = <<>>
  /\ pc' = "returned"
  /\ UNCHANGED <<ir_instructions, ir_copy, optimized, reoptimized, py_code, env>>
  /\ UNCHANGED <<table_vars, run_vars>>

(* optimizer.py 27 *)
CopyInput ==
  /\ pc = "call"
  /\ ir_instructions # <<>>
  /\ optimized' = copy_instructions(ir_instructions)
  /\ pc' = "phase1"
  /\ UNCHANGED <<ir_instructions, ir_copy, result, reoptimized, py_code, env>>
  /\ UNCHANGED <<table_vars, run_vars>>

(* variant: phase 1 filters the caller's list in place *)
Phase1InPlace ==
  /\ pc = "phase1"
  /\ optimized' = _remove_redundant_sets(optimized)
  /\ ir_instructions' = _remove_redundant_sets(ir_instructions)
  /\ pc' = "phase2"
  /\ UNCHANGED <<ir_copy, result, reoptimized, py_code, env>>
  /\ UNCHANGED <<table_vars, run_vars>>

(* optimizer.py 30 *)
Phase1 ==
  /\ pc = "phase1"
  /\ optimized' = _remove_redundant_sets(optimized)
  /\ pc' = "phase2"
  /\ UNCHANGED <<ir_instructions, ir_copy, result, reoptimized, py_code, env>>
  /\ UNCHANGED <<table_vars, run_vars>>

(* optimizer.py 33-35 *)
Phase2 ==
  /\ pc = "phase2"
  /\ optimized' = _group_instructions(optimized)
  /\ result' = _group_instructions(optimized)
  /\ pc' = "returned"
  /\ UNCHANGED <<ir_instructions, ir_copy, reoptimized, py_code, env>>
  /\ UNCHANGED <<table_vars, run_vars>>

(* the caller applies the optimizer to its own output *)
Reoptimize ==
  /\ pc = "returned"
  /\ reoptimized' = optimize_ir(result)
  /\ pc' = "reoptimized"
  /\ UNCHANGED <<ir_instructions, ir_copy, optimized, result, py_code, env>>
  /\ UNCHANGED <<table_vars, run_vars>>

(* test_optimizer.py 91: py_code = generate_python_from_ir(optimized) *)
Emit ==
  /\ pc = "returned"
  /\ py_code' = generate_python_from_ir(result)
  /\ pc' = "emitted"
  /\ UNCHANGED <<ir_instructions, ir_copy, optimized, result, reoptimized, env>>
  /\ UNCHANGED <<table_vars, run_vars>>

(* test_optimizer.py 94-95: env = {}; exec(py_code, {}, env) *)
Exec ==
  /\ pc = "emitted"
  /\ env' = exec(py_code)
  /\ pc' = "executed"
  /\ UNCHANGED <<ir_instructions, ir_copy, optimized, result, reoptimized, py_code>>
  /\ UNCHANGED <<table_vars, run_vars>>

Next ==
  \/ ReturnEmpty
  \/ CopyInput
  \/ Phase1
  \/ Phase2
  \/ Reoptimize
  \/ Emit
  \/ Exec

Spec == Init /\ [][Next]_vars

(* ------------------------------------------------------------------ *)
(* A client of one SymbolTable: any sequence of declare, lookup and     *)
(* is_reserved calls                                                    *)
(* ------------------------------------------------------------------ *)
Call(op, nombre, tipo_entidad, linea, columna, metadatos) ==
  [op |-> op, nombre |-> nombre, tipo_entidad |-> tipo_entidad, linea |-> linea,
   columna |-> columna, metadatos |-> metadatos]

TableInit ==
  /\ OptIdle
  /\ RunIdle
  /\ symbol_table = SymbolTable
  /\ call = NoCall
  /\ ret = PyNone

(* variant: every declaration goes into a table of its own *)
DeclareFresh ==
  \E nombre \in TreeNames, tipo_entidad \in {"objeto", "lista"}, linea \in 1..MaxLine :
  \E metadatos \in {PyNone, IF tipo_entidad = "objeto" THEN MetaObjeto ELSE MetaLista} :
    LET r == declare(SymbolTable, nombre, tipo_entidad, linea, 1, metadatos)
    IN  /\ symbol_table' = r.table
        /\ ret' = PyBool(r.ret)
        /\ call' = Call("declare", nombre, tipo_entidad, linea, 1, metadatos)
        /\ UNCHANGED <<opt_vars, after_other_run, run_vars>>

(* analyzer_core.py 71-82 *)
Declare ==
  \E nombre \in TreeNames, tipo_entidad \in {"objeto", "lista"}, linea \in 1..MaxLine :
  \E metadatos \in {PyNone, IF tipo_entidad = "objeto" THEN MetaObjeto ELSE MetaLista} :
    LET r == declare(symbol_table, nombre, tipo_entidad, linea, 1, metadatos)
    IN  /\ symbol_table' = r.table
        /\ ret' = PyBool(r.ret)
        /\ call' = Call("declare", nombre, tipo_entidad, linea, 1, metadatos)
        /\ UNCHANGED <<opt_vars, after_other_run, run_vars>>

(* analyzer_core.py 67-69 *)
Lookup ==
  \E nombre \in TreeNames :
    /\ ret' = lookup(symbol_table, nombre)
    /\ call' = Call("lookup", nombre, "", 0, 0, EmptyDict)
    /\ UNCHANGED <<symbol_table, opt_vars, run_vars>>

(* analyzer_core.py 63-65 *)
IsReserved ==
  \E nombre \in Identifiers :
    /\ ret' = PyBool(is_reserved(symbol_table, nombre))
    /\ call' = Call("is_reserved", nombre, "", 0, 0, EmptyDict)
    /\ UNCHANGED <<symbol_table, opt_vars, run_vars>>

TableNext ==
  \/ Declare
  \/ Lookup
  \/ IsReserved

SpecTable == TableInit /\ [][TableNext]_vars

(* ------------------------------------------------------------------ *)
(* analyzer_core.py: one run of analyze_and_transform                   *)
(* ------------------------------------------------------------------ *)
RunInit ==
  /\ OptIdle
  /\ TableIdle
  /\ tree = <<>>
  /\ error_listener = CustomErrorListener
  /\ current_symbol_name = NoneName
  /\ ir_builder = IRBuilderListener
  /\ ir_output = <<>>
  /\ json_output_string = JsonNone
  /\ symbols_debug_info = EmptyDict
  /\ error_summary_output = <<>>
  /\ ppc = "tokenize"
  /\ walk = <<>>
  /\ after_other_run = FALSE

(* analyzer_core.py 687-688: the lexer reports an error to the listener
   while token_stream.fill() runs *)
LexerError ==
  /\ ppc = "tokenize"
  /\ error_listener._lexer_errors < MaxSyntaxErrors
  /\ \E line \in 1..MaxLine, column \in 0..1, msg \in LexerMsgs :
       error_listener' = syntaxError(error_listener, TRUE, line, column, msg)
  /\ UNCHANGED <<opt_vars, after_other_run, table_vars, tree, current_symbol_name, ir_builder, ir_output,
                 json_output_string, symbols_debug_info, error_summary_output, ppc, walk>>

(* analyzer_core.py 689-691: token_stream.fill() raises *)
TokenizeRaises ==
  /\ ppc = "tokenize"
  /\ error_listener' =
       [error_listener EXCEPT !.error_messages =
          Append(@, ErrorMessage("critico", 0, 0,
                      Detail("Error critico durante la tokenizacion inicial", "", "", 0)))]
  /\ ppc' = "parse"
  /\ UNCHANGED <<opt_vars, after_other_run, table_vars, tree, current_symbol_name, ir_builder, ir_output,
                 json_output_string, symbols_debug_info, error_summary_output, walk>>

(* analyzer_core.py 687-688: token_stream.fill() returns *)
TokenizeReturns ==
  /\ ppc = "tokenize"
  /\ ppc' = "parse"
  /\ UNCHANGED <<opt_vars, after_other_run, table_vars, tree, error_listener, current_symbol_name, ir_builder,
                 ir_output, json_output_string, symbols_debug_info, error_summary_output, walk>>

(* analyzer_core.py 697: the parser reports an error to the listener while
   parser.programa() runs *)
ParserError ==
  /\ ppc = "parse"
  /\ error_listener._lexer_errors + error_listener._parser_errors < MaxSyntaxErrors
  /\ \E line \in 1..MaxLine, column \in 0..1, msg \in ParserMsgs :
       error_listener' = syntaxError(error_listener, FALSE, line, column, msg)
  /\ UNCHANGED <<opt_vars, after_other_run, table_vars, tree, current_symbol_name, ir_builder, ir_output,
                 json_output_string, symbols_debug_info, error_summary_output, ppc, walk>>

(* analyzer_core.py 697-704: parser.programa() returns the tree; after a
   reported error the tree is never read (707) and is left out *)
ParseReturns ==
  /\ ppc = "parse"
  /\ tree' \in IF error_listener._lexer_errors + error_listener._parser_errors = 0
               THEN ParseTrees ELSE { <<>> }
  /\ json_output_string' = JsonNone
  /\ symbols_debug_info' = EmptyDict
  /\ ir_output' = <<>>
  /\ ppc' = "gate"
  /\ UNCHANGED <<opt_vars, after_other_run, table_vars, error_listener, current_symbol_name, ir_builder,
                 error_summary_output, walk>>

(* variant: the walk starts whatever the listener has counted *)
StartSemanticUngated ==
  /\ ppc = "gate"
  /\ symbol_table' = SymbolTable
  /\ current_symbol_name' = NoneName
  /\ ppc' = "semantic"
  /\ walk' = callbacks(tree, SemanticCallbacks)
  /\ UNCHANGED <<opt_vars, after_other_run, call, ret, tree, error_listener, ir_builder, ir_output,
                 json_output_string, symbols_debug_info, error_summary_output>>

(* analyzer_core.py 707-711: no error so far (a tree object is always
   truthy); the symbol table and the semantic analyzer are constructed and
   the walk starts *)
StartSemantic ==
  /\ ppc = "gate"
  /\ get_total_errors(error_listener) = 0
  /\ symbol_table' = SymbolTable
  /\ current_symbol_name' = NoneName
  /\ ppc' = "semantic"
  /\ walk' = callbacks(tree, SemanticCallbacks)
  /\ UNCHANGED <<opt_vars, after_other_run, call, ret, tree, error_listener, ir_builder, ir_output,
                 json_output_string, symbols_debug_info, error_summary_output>>

(* analyzer_core.py 707: the lexer or the parser reported an error *)
SkipAnalysis ==
  /\ ppc = "gate"
  /\ get_total_errors(error_listener) # 0
  /\ ppc' = "summary"
  /\ UNCHANGED <<opt_vars, after_other_run, table_vars, tree, error_listener, current_symbol_name, ir_builder,
                 ir_output, json_output_string, symbols_debug_info, error_summary_output, walk>>

(* the walker is about to make callback ev of the walk of phase fase *)
AtCallback(fase, ev) ==
  /\ ppc = fase
  /\ walk # <<>>
  /\ Head(walk).ev = ev

(* the command context of the pending callback *)
Ctx == tree[Head(walk).cmd]

(* variant: a refused declaration stays the current symbol *)
enterCrear_keeps_current(tipo_entidad, metadatos) ==
  LET ctx == Ctx
      nombre == ctx.nombre
      linea == ctx.line
      columna == ctx.column + 1
      r == declare(symbol_table, nombre, tipo_entidad, linea, columna, metadatos)
      entrada_previa == lookup(symbol_table, nombre)
  IN  IF is_reserved(symbol_table, nombre)
      THEN /\ error_listener' = add_semantic_error(error_listener, linea, columna,
                                  Detail("es una palabra reservada", nombre, "", 0))
           /\ current_symbol_name' = NoneName
           /\ UNCHANGED symbol_table
      ELSE IF ~r.ret
      THEN /\ error_listener' = add_semantic_error(error_listener, linea, columna,
                                  Detail("Redefinicion del simbolo", nombre,
                                         entrada_previa.tipo_entidad, entrada_previa.linea))
           /\ current_symbol_name' = nombre
           /\ symbol_table' = r.table
      ELSE /\ current_symbol_name' = nombre
           /\ symbol_table' = r.table
           /\ UNCHANGED error_listener

(* variant: no reserved-word test before the declaration *)
enterCrear_unreserved(tipo_entidad, metadatos) ==
  LET ctx == Ctx
      nombre == ctx.nombre
      linea == ctx.line
      columna == ctx.column + 1
      r == declare(symbol_table, nombre, tipo_entidad, linea, columna, metadatos)
      entrada_previa == lookup(symbol_table, nombre)
  IN  IF ~r.ret
      THEN /\ error_listener' = add_semantic_error(error_listener, linea, columna,
                                  Detail("Redefinicion del simbolo", nombre,
                                         entrada_previa.tipo_entidad, entrada_previa.linea))
           /\ current_symbol_name' = NoneName
           /\ symbol_table' = r.table
      ELSE /\ current_symbol_name' = nombre
           /\ symbol_table' = r.table
           /\ UNCHANGED error_listener

(* variant: a refused declaration replaces the record of the name *)
enterCrear_replacing(tipo_entidad, metadatos) ==
  LET ctx == Ctx
      nombre == ctx.nombre
      linea == ctx.line
      columna == ctx.column + 1
      r == declare(symbol_table, nombre, tipo_entidad, linea, columna, metadatos)
      entrada_previa == lookup(symbol_table, nombre)
  IN  IF is_reserved(symbol_table, nombre)
      THEN /\ error_listener' = add_semantic_error(error_listener, linea, columna,
                                  Detail("es una palabra reservada", nombre, "", 0))
           /\ current_symbol_name' = NoneName
           /\ UNCHANGED symbol_table
      ELSE IF ~r.ret
      THEN /\ error_listener' = add_semantic_error(error_listener, linea, columna,
                                  Detail("Redefinicion del simbolo", nombre,
                                         entrada_previa.tipo_entidad, entrada_previa.linea))
           /\ current_symbol_name' = NoneName
           /\ symbol_table' =
                declare_overwriting(symbol_table, nombre, tipo_entidad, linea, columna,
                                    metadatos).table
      ELSE /\ current_symbol_name' = nombre
           /\ symbol_table' = r.table
           /\ UNCHANGED error_listener

(* variant: the reserved-word branch does not return, the declaration is
   attempted as well *)
enterCrear_checking_both(tipo_entidad, metadatos) ==
  LET ctx == Ctx
      nombre == ctx.nombre
      linea == ctx.line
      columna == ctx.column + 1
      r == declare(symbol_table, nombre, tipo_entidad, linea, columna, metadatos)
      entrada_previa == lookup(symbol_table, nombre)
      reported == IF is_reserved(symbol_table, nombre)
                  THEN add_semantic_error(error_listener, linea, columna,
                                          Detail("es una palabra reservada", nombre, "", 0))
                  ELSE error_listener
  IN  IF ~r.ret
      THEN /\ error_listener' = add_semantic_error(reported, linea, columna,
                                  Detail("Redefinicion del simbolo", nombre,
                                         entrada_previa.tipo_entidad, entrada_previa.linea))
           /\ current_symbol_name' = NoneName
           /\ symbol_table' = r.table
      ELSE /\ current_symbol_name' = nombre
           /\ symbol_table' = r.table
           /\ error_listener' = reported

(* analyzer_core.py 254-281 and 297-324: the shared protocol of the two
   enterCrear_*_cmd callbacks *)
enterCrear(tipo_entidad, metadatos) ==
  LET ctx == Ctx
      nombre == ctx.nombre
      linea == ctx.line
      columna == ctx.column + 1
      r == declare(symbol_table, nombre, tipo_entidad, linea, columna, metadatos)
      entrada_previa == lookup(symbol_table, nombre)
  IN  IF is_reserved(symbol_table, nombre)
      THEN /\ error_listener' = add_semantic_error(error_listener, linea, columna,
                                  Detail("es una palabra reservada", nombre, "", 0))
           /\ current_symbol_name' = NoneName
           /\ UNCHANGED symbol_table
      ELSE IF ~r.ret
      THEN /\ error_listener' = add_semantic_error(error_listener, linea, columna,
                                  Detail("Redefinicion del simbolo", nombre,
                                         entrada_previa.tipo_entidad, entrada_previa.linea))
           /\ current_symbol_name' = NoneName
           /\ symbol_table' = r.table
      ELSE /\ current_symbol_name' = nombre
           /\ symbol_table' = r.table
           /\ UNCHANGED error_listener

(* analyzer_core.py 254-281 *)
SemanticAnalyzer_enterCrear_objeto_cmd ==
  /\ AtCallback("semantic", "enterCrear_objeto_cmd")
  /\ enterCrear("objeto", MetaObjeto)
  /\ walk' = Tail(walk)
  /\ UNCHANGED <<opt_vars, after_other_run, call, ret, tree, ir_builder, ir_output, json_output_string,
                 symbols_debug_info, error_summary_output, ppc>>

(* variant: the current symbol outlives its command *)
SemanticAnalyzer_exitCrear_objeto_cmd_keeps ==
  /\ AtCallback("semantic", "exitCrear_objeto_cmd")
  /\ walk' = Tail(walk)
  /\ UNCHANGED <<opt_vars, after_other_run, table_vars, tree, error_listener, current_symbol_name, ir_builder,
                 ir_output, json_output_string, symbols_debug_info, error_summary_output, ppc>>

(* analyzer_core.py 283-284 *)
SemanticAnalyzer_exitCrear_objeto_cmd ==
  /\ AtCallback("semantic", "exitCrear_objeto_cmd")
  /\ current_symbol_name' = NoneName
  /\ walk' = Tail(walk)
  /\ UNCHANGED <<opt_vars, after_other_run, table_vars, tree, error_listener, ir_builder, ir_output,
                 json_output_string, symbols_debug_info, error_summary_output, ppc>>

(* variant: a key given again with another type is reported and not stored *)
SemanticAnalyzer_enterPropiedad_consistent ==
  /\ AtCallback("semantic", "enterPropiedad")
  /\ LET e == Head(walk)
         clave == tree[e.cmd].body[e.i].clave
         tipo_valor == get_value_type(valor_ctx(tree, e))
         entry == lookup(symbol_table, current_symbol_name)
     IN  IF current_symbol_name # NoneName /\ entry # PyNone /\ entry.tipo_entidad = "objeto"
         THEN IF /\ clave \in DOMAIN entry.metadatos.propiedades
                 /\ entry.metadatos.propiedades[clave] # tipo_valor
              THEN /\ error_listener' =
                        add_semantic_error(error_listener, tree[e.cmd].line, 1,
                                           Detail("Tipo inconsistente", clave, "", 0))
                   /\ UNCHANGED symbol_table
              ELSE /\ symbol_table' =
                        [symbol_table EXCEPT
                           !.symbols[current_symbol_name].metadatos.propiedades =
                              dict_set(@, clave, tipo_valor)]
                   /\ UNCHANGED error_listener
         ELSE UNCHANGED <<symbol_table, error_listener>>
  /\ walk' = Tail(walk)
  /\ UNCHANGED <<opt_vars, after_other_run, call, ret, tree, current_symbol_name, ir_builder,
                 ir_output, json_output_string, symbols_debug_info, error_summary_output, ppc>>

(* analyzer_core.py 286-295 *)
SemanticAnalyzer_enterPropiedad ==
  /\ AtCallback("semantic", "enterPropiedad")
  /\ LET e == Head(walk)
         clave == tree[e.cmd].body[e.i].clave
         tipo_valor == get_value_type(valor_ctx(tree, e))
         entry == lookup(symbol_table, current_symbol_name)
     IN  IF current_symbol_name # NoneName /\ entry # PyNone /\ entry.tipo_entidad = "objeto"
         THEN symbol_table' =
                [symbol_table EXCEPT !.symbols[current_symbol_name].metadatos.propiedades =
                   dict_set(@, clave, tipo_valor)]
         ELSE UNCHANGED symbol_table
  /\ walk' = Tail(walk)
  /\ UNCHANGED <<opt_vars, after_other_run, call, ret, tree, error_listener, current_symbol_name, ir_builder,
                 ir_output, json_output_string, symbols_debug_info, error_summary_output, ppc>>

(* analyzer_core.py 297-324 *)
SemanticAnalyzer_enterCrear_lista_cmd ==
  /\ AtCallback("semantic", "enterCrear_lista_cmd")
  /\ enterCrear("lista", MetaLista)
  /\ walk' = Tail(walk)
  /\ UNCHANGED <<opt_vars, after_other_run, call, ret, tree, ir_builder, ir_output, json_output_string,
                 symbols_debug_info, error_summary_output, ppc>>

(* analyzer_core.py 326-327 *)
SemanticAnalyzer_exitCrear_lista_cmd ==
  /\ AtCallback("semantic", "exitCrear_lista_cmd")
  /\ current_symbol_name' = NoneName
  /\ walk' = Tail(walk)
  /\ UNCHANGED <<opt_vars, after_other_run, table_vars, tree, error_listener, ir_builder, ir_output,
                 json_output_string, symbols_debug_info, error_summary_output, ppc>>

(* variant: the type is inserted at the head of the element types *)
SemanticAnalyzer_enterValor_insert ==
  /\ AtCallback("semantic", "enterValor")
  /\ LET e == Head(walk)
         tipo_valor == get_value_type(valor_ctx(tree, e))
         entry == lookup(symbol_table, current_symbol_name)
     IN  IF current_symbol_name # NoneName /\ entry # PyNone /\ entry.tipo_entidad = "lista"
         THEN symbol_table' =
                [symbol_table EXCEPT !.symbols[current_symbol_name].metadatos.tipos_elementos =
                   << tipo_valor >> \o @]
         ELSE UNCHANGED symbol_table
  /\ walk' = Tail(walk)
  /\ UNCHANGED <<opt_vars, after_other_run, call, ret, tree, error_listener, current_symbol_name, ir_builder,
                 ir_output, json_output_string, symbols_debug_info, error_summary_output, ppc>>

(* analyzer_core.py 329-337 *)
SemanticAnalyzer_enterValor ==
  /\ AtCallback("semantic", "enterValor")
  /\ LET e == Head(walk)
         tipo_valor == get_value_type(valor_ctx(tree, e))
         entry == lookup(symbol_table, current_symbol_name)
     IN  IF current_symbol_name # NoneName /\ entry # PyNone /\ entry.tipo_entidad = "lista"
         THEN symbol_table' =
                [symbol_table EXCEPT !.symbols[current_symbol_name].metadatos.tipos_elementos =
                   Append(@, tipo_valor)]
         ELSE UNCHANGED symbol_table
  /\ walk' = Tail(walk)
  /\ UNCHANGED <<opt_vars, after_other_run, call, ret, tree, error_listener, current_symbol_name, ir_builder,
                 ir_output, json_output_string, symbols_debug_info, error_summary_output, ppc>>

(* variant: the IR builder starts whatever the semantic walk reported *)
SemanticDoneUngated ==
  /\ ppc = "semantic"
  /\ walk = <<>>
  /\ symbols_debug_info' = get_debug_info(symbol_table)
  /\ ir_builder' = IRBuilderListener
  /\ ppc' = "ir"
  /\ walk' = callbacks(tree, IRCallbacks)
  /\ UNCHANGED <<opt_vars, after_other_run, table_vars, tree, error_listener, current_symbol_name, ir_output,
                 json_output_string, error_summary_output>>

(* analyzer_core.py 711-720: the walk is over; the debug view is taken and,
   without semantic errors, the IR builder is constructed and its walk starts *)
SemanticDone ==
  /\ ppc = "semantic"
  /\ walk = <<>>
  /\ symbols_debug_info' = get_debug_info(symbol_table)
  /\ IF error_listener._semantic_errors = 0
     THEN /\ ir_builder' = IRBuilderListener
          /\ ppc' = "ir"
          /\ walk' = callbacks(tree, IRCallbacks)
     ELSE /\ ppc' = "summary"
          /\ UNCHANGED <<ir_builder, walk>>
  /\ UNCHANGED <<opt_vars, after_other_run, table_vars, tree, error_listener, current_symbol_name, ir_output,
                 json_output_string, error_summary_output>>

(* variant: the object command appends a list creation *)
IRBuilderListener_enterCrear_objeto_cmd_as_list ==
  /\ AtCallback("ir", "enterCrear_objeto_cmd")
  /\ ir_builder' =
       [ir_builder EXCEPT !.current_obj_name = Ctx.nombre,
                          !.ir_instructions =
                             Append(@, Instr("IR_CREATE_LIST", << Ctx.nombre >>))]
  /\ walk' = Tail(walk)
  /\ UNCHANGED <<opt_vars, after_other_run, table_vars, tree, error_listener, current_symbol_name, ir_output,
                 json_output_string, symbols_debug_info, error_summary_output, ppc>>

(* analyzer_core.py 366-369 *)
IRBuilderListener_enterCrear_objeto_cmd ==
  /\ AtCallback("ir", "enterCrear_objeto_cmd")
  /\ ir_builder' =
       [ir_builder EXCEPT !.current_obj_name = Ctx.nombre,
                          !.ir_instructions =
                             Append(@, Instr("IR_CREATE_OBJECT", << Ctx.nombre >>))]
  /\ walk' = Tail(walk)
  /\ UNCHANGED <<opt_vars, after_other_run, table_vars, tree, error_listener, current_symbol_name, ir_output,
                 json_output_string, symbols_debug_info, error_summary_output, ppc>>

(* variant: the walker delivers the command-exit again and again *)
IRBuilderListener_exitCrear_objeto_cmd_again ==
  /\ AtCallback("ir", "exitCrear_objeto_cmd")
  /\ ir_builder' = [ir_builder EXCEPT !.current_obj_name = NoneName]
  /\ UNCHANGED <<opt_vars, after_other_run, table_vars, tree, error_listener,
                 current_symbol_name, ir_output, json_output_string, symbols_debug_info,
                 error_summary_output, ppc, walk>>

(* analyzer_core.py 371-372 *)
IRBuilderListener_exitCrear_objeto_cmd ==
  /\ AtCallback("ir", "exitCrear_objeto_cmd")
  /\ ir_builder' = [ir_builder EXCEPT !.current_obj_name = NoneName]
  /\ walk' = Tail(walk)
  /\ UNCHANGED <<opt_vars, after_other_run, table_vars, tree, error_listener, current_symbol_name, ir_output,
                 json_output_string, symbols_debug_info, error_summary_output, ppc>>

(* variant: the instruction is inserted at the head of the list *)
IRBuilderListener_exitPropiedad_insert ==
  /\ AtCallback("ir", "exitPropiedad")
  /\ LET e == Head(walk)
         clave == tree[e.cmd].body[e.i].clave
         valor == valor_ctx(tree, e)
     IN  IF ir_builder.current_obj_name # NoneName
         THEN ir_builder' =
                [ir_builder EXCEPT !.ir_instructions =
                   << Instr("IR_SET_PROPERTY",
                            << ir_builder.current_obj_name, clave,
                               get_value_type(valor), valor_nativo(valor) >>) >> \o @]
         ELSE UNCHANGED ir_builder
  /\ walk' = Tail(walk)
  /\ UNCHANGED <<opt_vars, after_other_run, table_vars, tree, error_listener, current_symbol_name, ir_output,
                 json_output_string, symbols_debug_info, error_summary_output, ppc>>

(* analyzer_core.py 374-396 *)
IRBuilderListener_exitPropiedad ==
  /\ AtCallback("ir", "exitPropiedad")
  /\ LET e == Head(walk)
         clave == tree[e.cmd].body[e.i].clave
         valor == valor_ctx(tree, e)
     IN  IF ir_builder.current_obj_name # NoneName
         THEN ir_builder' =
                [ir_builder EXCEPT !.ir_instructions =
                   Append(@, Instr("IR_SET_PROPERTY",
                                   << ir_builder.current_obj_name, clave,
                                      get_value_type(valor), valor_nativo(valor) >>))]
         ELSE UNCHANGED ir_builder
  /\ walk' = Tail(walk)
  /\ UNCHANGED <<opt_vars, after_other_run, table_vars, tree, error_listener, current_symbol_name, ir_output,
                 json_output_string, symbols_debug_info, error_summary_output, ppc>>

(* variant: the list becomes current without a creation instruction *)
IRBuilderListener_enterCrear_lista_cmd_silent ==
  /\ AtCallback("ir", "enterCrear_lista_cmd")
  /\ ir_builder' = [ir_builder EXCEPT !.current_list_name = Ctx.nombre]
  /\ walk' = Tail(walk)
  /\ UNCHANGED <<opt_vars, after_other_run, table_vars, tree, error_listener, current_symbol_name, ir_output,
                 json_output_string, symbols_debug_info, error_summary_output, ppc>>

(* analyzer_core.py 398-401 *)
IRBuilderListener_enterCrear_lista_cmd ==
  /\ AtCallback("ir", "enterCrear_lista_cmd")
  /\ ir_builder' =
       [ir_builder EXCEPT !.current_list_name = Ctx.nombre,
                          !.ir_instructions =
                             Append(@, Instr("IR_CREATE_LIST", << Ctx.nombre >>))]
  /\ walk' = Tail(walk)
  /\ UNCHANGED <<opt_vars, after_other_run, table_vars, tree, error_listener, current_symbol_name, ir_output,
                 json_output_string, symbols_debug_info, error_summary_output, ppc>>

(* variant: the current list outlives its command *)
IRBuilderListener_exitCrear_lista_cmd_keeps ==
  /\ AtCallback("ir", "exitCrear_lista_cmd")
  /\ walk' = Tail(walk)
  /\ UNCHANGED <<opt_vars, after_other_run, table_vars, tree, error_listener, current_symbol_name, ir_builder,
                 ir_output, json_output_string, symbols_debug_info, error_summary_output, ppc>>

(* analyzer_core.py 403-404 *)
IRBuilderListener_exitCrear_lista_cmd ==
  /\ AtCallback("ir", "exitCrear_lista_cmd")
  /\ ir_builder' = [ir_builder EXCEPT !.current_list_name = NoneName]
  /\ walk' = Tail(walk)
  /\ UNCHANGED <<opt_vars, after_other_run, table_vars, tree, error_listener, current_symbol_name, ir_output,
                 json_output_string, symbols_debug_info, error_summary_output, ppc>>

(* variant: any value appends while a list is current *)
exitValor_any_parent(builder, t, e) ==
  LET valor == valor_ctx(t, e)
  IN  IF builder.current_list_name # NoneName
      THEN [builder EXCEPT !.ir_instructions =
              Append(@, Instr("IR_APPEND_LIST",
                              << builder.current_list_name,
                                 get_value_type(valor), valor_nativo(valor) >>))]
      ELSE builder

(* analyzer_core.py 406-428: the builder after exitValor on the valor
   context of event e *)
exitValor(builder, t, e) ==
  LET valor == valor_ctx(t, e)
  IN  IF builder.current_list_name # NoneName /\ parent_is_items_lista(t, e)
      THEN [builder EXCEPT !.ir_instructions =
              Append(@, Instr("IR_APPEND_LIST",
                              << builder.current_list_name,
                                 get_value_type(valor), valor_nativo(valor) >>))]
      ELSE builder

(* analyzer_core.py 406-428 *)
IRBuilderListener_exitValor ==
  /\ AtCallback("ir", "exitValor")
  /\ ir_builder' = exitValor(ir_builder, tree, Head(walk))
  /\ walk' = Tail(walk)
  /\ UNCHANGED <<opt_vars, after_other_run, table_vars, tree, error_listener, current_symbol_name, ir_output,
                 json_output_string, symbols_debug_info, error_summary_output, ppc>>

(* analyzer_core.py 721-723: ir_output = optimize_ir(ir_builder.get_instructions()) *)
OptimizeIR ==
  /\ ppc = "ir"
  /\ walk = <<>>
  /\ ir_output' = optimize_ir(get_instructions(ir_builder))
  /\ ppc' = "json"
  /\ UNCHANGED <<opt_vars, after_other_run, table_vars, tree, error_listener, current_symbol_name, ir_builder,
                 json_output_string, symbols_debug_info, error_summary_output, walk>>

(* analyzer_core.py 726-736: the JSON builder walks the tree and its
   result is dumped *)
BuildJson ==
  /\ ppc = "json"
  /\ error_listener._semantic_errors = 0
  /\ json_output_string' = get_final_json_string(tree)
  /\ ppc' = "summary"
  /\ UNCHANGED <<opt_vars, after_other_run, table_vars, tree, error_listener, current_symbol_name, ir_builder,
                 ir_output, symbols_debug_info, error_summary_output, walk>>

(* analyzer_core.py 755-773: the summary is taken and the run returns *)
Summarize ==
  /\ ppc = "summary"
  /\ error_summary_output' = get_error_summary_string(error_listener)
  /\ ppc' = "done"
  /\ UNCHANGED <<opt_vars, after_other_run, table_vars, tree, error_listener, current_symbol_name, ir_builder,
                 ir_output, json_output_string, symbols_debug_info, walk>>

(* variant: the error listener of the returned run serves the next one *)
CallAgainPooled ==
  /\ ppc = "done"
  /\ symbol_table' = SymbolTable
  /\ tree' = <<>>
  /\ current_symbol_name' = NoneName
  /\ ir_builder' = IRBuilderListener
  /\ ir_output' = <<>>
  /\ json_output_string' = JsonNone
  /\ symbols_debug_info' = EmptyDict
  /\ error_summary_output' = <<>>
  /\ ppc' = "tokenize"
  /\ walk' = <<>>
  /\ after_other_run' = TRUE
  /\ UNCHANGED <<opt_vars, call, ret, error_listener>>

(* analyzer_core.py 675-683: analyze_and_transform is called again in the
   same process; every object of the run is a local variable of the new
   activation, constructed by it (680, 708-709, 719, 733) or not bound yet *)
CallAgain ==
  /\ ppc = "done"
  /\ error_listener' = CustomErrorListener
  /\ symbol_table' = SymbolTable
  /\ tree' = <<>>
  /\ current_symbol_name' = NoneName
  /\ ir_builder' = IRBuilderListener
  /\ ir_output' = <<>>
  /\ json_output_string' = JsonNone
  /\ symbols_debug_info' = EmptyDict
  /\ error_summary_output' = <<>>
  /\ ppc' = "tokenize"
  /\ walk' = <<>>
  /\ after_other_run' = TRUE
  /\ UNCHANGED <<opt_vars, call, ret>>

RunNext ==
  \/ LexerError
  \/ TokenizeRaises
  \/ TokenizeReturns
  \/ ParserError
  \/ ParseReturns
  \/ StartSemantic
  \/ SkipAnalysis
  \/ SemanticAnalyzer_enterCrear_objeto_cmd
  \/ SemanticAnalyzer_exitCrear_objeto_cmd
  \/ SemanticAnalyzer_enterPropiedad
  \/ SemanticAnalyzer_enterCrear_lista_cmd
  \/ SemanticAnalyzer_exitCrear_lista_cmd
  \/ SemanticAnalyzer_enterValor
  \/ SemanticDone
  \/ IRBuilderListener_enterCrear_objeto_cmd
  \/ IRBuilderListener_exitCrear_objeto_cmd
  \/ IRBuilderListener_exitPropiedad
  \/ IRBuilderListener_enterCrear_lista_cmd
  \/ IRBuilderListener_exitCrear_lista_cmd
  \/ IRBuilderListener_exitValor
  \/ OptimizeIR
  \/ BuildJson
  \/ Summarize

SpecRun == RunInit /\ [][RunNext]_vars

(* one call of optimize_ir by a caller, or one run of analyze_and_transform,
   in which a step that can be taken is taken: Python runs each call to
   its end *)
FairInit == Init \/ RunInit

FairNext == Next \/ RunNext

(* optimizer.py 23-35: a call of optimize_ir goes on to its return *)
OptimizeRuns ==
  /\ pc \in {"call", "phase1", "phase2"}
  /\ pc' \in {"phase1", "phase2", "returned"}

(* a step of a run other than the return of optimize_ir or of the JSON
   builder *)
RunWalks == (walk # <<>> \/ ppc \notin {"ir", "json"}) /\ RunNext

(* analyzer_core.py 722-723: optimize_ir returns to the run *)
OptimizeIRReturns == ppc = "ir" /\ walk = <<>> /\ ppc' = "json"

(* analyzer_core.py 733-736: the JSON builder returns to the run *)
BuildJsonReturns == ppc = "json" /\ ppc' = "summary"

SpecFair ==
  /\ FairInit
  /\ [][FairNext]_vars
  /\ WF_pc(OptimizeRuns)
  /\ WF_vars(RunWalks)
  /\ WF_ppc(OptimizeIRReturns)
  /\ WF_ppc(BuildJsonReturns)

(* a process that calls analyze_and_transform any number of times *)
CallsNext ==
  \/ RunNext
  \/ CallAgain

SpecCalls == RunInit /\ [][CallsNext]_vars

(* ------------------------------------------------------------------ *)
(* Vocabulary of the properties, stated on sequences directly and       *)
(* independently of the optimizer's own loops                           *)
(* ------------------------------------------------------------------ *)
Returned == pc \in {"returned", "reoptimized", "emitted", "executed"}

IsSet(instr) == instr.opcode = "IR_SET_PROPERTY"
IsAppend(instr) == instr.opcode = "IR_APPEND_LIST"
PairOf(instr) == <<instr.args[1], instr.args[2]>>
HasOther(x) == \E i \in DOMAIN x : IsOther(x[i])

(* the elements of x at the indices in I, in increasing index order *)
RECURSIVE PickUpTo(_, _, _)
PickUpTo(x, I, n) ==
  IF n = 0 THEN <<>>
  ELSE IF n \in I THEN Append(PickUpTo(x, I, n - 1), x[n])
       ELSE PickUpTo(x, I, n - 1)
Pick(x, I) == PickUpTo(x, I, Len(x))

(* a SET_PROPERTY is overwritten when a later one writes the same pair *)
Overwritten(x, i) ==
  IsSet(x[i]) /\ \E j \in DOMAIN x : j > i /\ IsSet(x[j]) /\ PairOf(x[j]) = PairOf(x[i])
Surviving(x) == Pick(x, {i \in DOMAIN x : ~Overwritten(x, i)})
NoRepeatedWrite(x) == \A i \in DOMAIN x : ~Overwritten(x, i)

(* the surviving operations of x on entity n, in input order *)
Bucket(x, n) ==
  Pick(x, {i \in DOMAIN x : IsOperation(x[i]) /\ x[i].args[1] = n /\ ~Overwritten(x, i)})
OperationsOn(x, n) ==
  Pick(x, {i \in DOMAIN x : IsOperation(x[i]) /\ x[i].args[1] = n})
Created(x) == {x[i].args[1] : i \in {j \in DOMAIN x : IsCreation(x[j])}}
AppendValues(x, n) ==
  LET a == Pick(x, {i \in DOMAIN x : IsAppend(x[i]) /\ x[i].args[1] = n})
  IN  [i \in 1..Len(a) |-> a[i].args[3]]

(* C1: optimize(optimize(x)) equals optimize(x) for every instruction   *)
(* sequence x, duplicate creations and never-created targets included.  *)
C1_Idempotent ==
  pc = "reoptimized" => reoptimized = result

(* C2: executing the program emitted from optimize(x) leaves every      *)
(* entity with the same final property values and every list with the   *)
(* same contents, in the same order, as executing the program emitted    *)
(* from x.                                                               *)
C2_ReplayEquivalent ==
  pc = "executed" => env.env = exec(generate_python_from_ir(ir_instructions)).env

(* C3: the output holds exactly one SET_PROPERTY for each                *)
(* (objectName, key) pair written in the input, and it carries the value *)
(* type and the value of the last write to that pair in the input.       *)
C3_OneSetPerPair ==
  Returned =>
    \A i \in DOMAIN ir_instructions :
      (IsSet(ir_instructions[i]) /\ ~Overwritten(ir_instructions, i)) =>
        LET hits == {j \in DOMAIN result :
                       IsSet(result[j]) /\ PairOf(result[j]) = PairOf(ir_instructions[i])}
        IN  /\ Cardinality(hits) = 1
            /\ \A j \in hits : result[j].args = ir_instructions[i].args

(* C4: optimize never changes its argument: once it has returned, the    *)
(* list it was given equals the structural copy taken before the call,   *)
(* whether or not the returned list differs from it.                     *)
C4_NoMutation ==
  pc # "call" => ir_instructions = ir_copy

C4_Witness ==
  /\ pc = "returned"
  /\ result # ir_instructions
  /\ Len(result) < Len(ir_instructions)
  /\ ir_instructions = ir_copy

(* C5: for an input over the four known opcodes, every creation          *)
(* instruction of the output is immediately followed by all the          *)
(* (surviving) operations that target its entity name, nothing else is   *)
(* in between, every operation on a created entity sits in such a run,   *)
(* and the creation instructions keep their input order.                 *)
C5_Grouped ==
  (Returned /\ ~HasOther(ir_instructions)) =>
    /\ \A i \in DOMAIN result :
         IsCreation(result[i]) =>
           LET b == Bucket(ir_instructions, result[i].args[1])
           IN  /\ i + Len(b) <= Len(result)
               /\ SubSeq(result, i + 1, i + Len(b)) = b
    /\ \A j \in DOMAIN result :
         (IsOperation(result[j]) /\ result[j].args[1] \in Created(ir_instructions)) =>
           \E i \in 1..(j - 1) :
             /\ IsCreation(result[i])
             /\ result[i].args[1] = result[j].args[1]
             /\ j <= i + Len(Bucket(ir_instructions, result[i].args[1]))
    /\ SelectSeq(result, IsCreation) = SelectSeq(ir_instructions, IsCreation)

C5_Witness ==
  /\ pc = "returned"
  /\ ~HasOther(ir_instructions)
  /\ Cardinality(Created(ir_instructions)) = 2
  /\ result # Surviving(ir_instructions)
  /\ \E i \in DOMAIN result : IsOperation(result[i])

(* C6: for an input over the four known opcodes and every entity name,   *)
(* the operations targeting that entity appear in the output in the same *)
(* relative order as the surviving operations on it in the input.        *)
C6_OrderPerEntity ==
  (Returned /\ ~HasOther(ir_instructions)) =>
    \A n \in Names : OperationsOn(result, n) = Bucket(ir_instructions, n)

(* C7 as stated: when the input holds an opcode outside the known set,   *)
(* the returned sequence equals the input sequence.                      *)
C7_IdentityOnUnknown ==
  (Returned /\ HasOther(ir_instructions)) => result = ir_instructions

(* C7 as amended: when the input holds an opcode outside the known set,  *)
(* only the regrouping is given up: the returned sequence is the input   *)
(* with every overwritten SET_PROPERTY removed, and it equals the input  *)
(* exactly when no (objectName, key) pair is written more than once.     *)
C7_Phase1OnlyOnUnknown ==
  (Returned /\ HasOther(ir_instructions)) =>
    /\ result = Surviving(ir_instructions)
    /\ (result = ir_instructions) <=> NoRepeatedWrite(ir_instructions)

C7_Witness ==
  /\ pc = "returned"
  /\ HasOther(ir_instructions)
  /\ NoRepeatedWrite(ir_instructions)
  /\ \E i \in DOMAIN ir_instructions : IsSet(ir_instructions[i])
  /\ result = ir_instructions

(* C8: when the sequence reaching phase 2 holds an opcode other than the *)
(* four known ones, optimize returns exactly the phase-1 output: the     *)
(* overwritten SET_PROPERTY instructions are gone and the rest, unknown  *)
(* instructions included, keeps its input order without regrouping.      *)
C8_AbortReturnsPhase1 ==
  [][(pc = "phase2" /\ HasOther(optimized)) =>
       /\ result' = optimized
       /\ result' = Surviving(ir_instructions)]_vars

C8_Witness ==
  /\ pc = "returned"
  /\ HasOther(ir_instructions)
  /\ ~NoRepeatedWrite(ir_instructions)
  /\ Len(result) < Len(ir_instructions)

(* C9: a sequence with no two SET_PROPERTY for the same pair, in which   *)
(* each entity is created once and its operations already follow its     *)
(* creation contiguously, is returned unchanged; the empty sequence      *)
(* gives the empty sequence.                                             *)
AlreadyOptimal(x) ==
  /\ NoRepeatedWrite(x)
  /\ \A i, j \in DOMAIN x :
       (IsCreation(x[i]) /\ IsCreation(x[j]) /\ x[i].args[1] = x[j].args[1]) => i = j
  /\ \A j \in DOMAIN x :
       IsOperation(x[j]) =>
         \E i \in 1..(j - 1) :
           /\ IsCreation(x[i])
           /\ x[i].args[1] = x[j].args[1]
           /\ \A k \in (i + 1)..j : IsOperation(x[k]) /\ x[k].args[1] = x[j].args[1]

C9_FixedPoint ==
  /\ (Returned /\ AlreadyOptimal(ir_instructions)) => result = ir_instructions
  /\ (Returned /\ ir_instructions = <<>>) => result = <<>>

C9_Witness ==
  /\ pc = "returned"
  /\ AlreadyOptimal(ir_instructions)
  /\ Cardinality(Created(ir_instructions)) = 2
  /\ \E i \in DOMAIN ir_instructions : IsOperation(ir_instructions[i])
  /\ result = ir_instructions

(* C10: APPEND_LIST is never eliminated: for every list name the         *)
(* sequence of appended values in the output equals the sequence of      *)
(* appended values in the input, same count and same order.              *)
C10_AppendsPreserved ==
  Returned =>
    \A n \in Names : AppendValues(result, n) = AppendValues(ir_instructions, n)

(* ------------------------------------------------------------------ *)
(* Symbol table                                                         *)
(* ------------------------------------------------------------------ *)

(* the record a successful declare call stores *)
DeclaredRecord(c) ==
  [nombre |-> c.nombre, tipo_entidad |-> c.tipo_entidad, linea |-> c.linea,
   columna |-> c.columna,
   metadatos |-> IF c.metadatos = PyNone THEN EmptyDict ELSE c.metadatos]

(* C11: a declare call on a name the table already holds returns false and
   leaves the table as it was (same names, same records), whatever kind it
   asks for; on a name the table does not hold it returns true and the table
   gains exactly the record of the call, every other record untouched. *)
C11_DeclareContract ==
  [][ call'.op = "declare" =>
        IF call'.nombre \in DOMAIN symbol_table.symbols
        THEN /\ ret' = PyBool(FALSE)
             /\ symbol_table' = symbol_table
        ELSE /\ ret' = PyBool(TRUE)
             /\ DOMAIN symbol_table'.symbols = DOMAIN symbol_table.symbols \cup {call'.nombre}
             /\ \A n \in DOMAIN symbol_table.symbols :
                  symbol_table'.symbols[n] = symbol_table.symbols[n]
             /\ symbol_table'.symbols[call'.nombre] = DeclaredRecord(call')
             /\ symbol_table'.reserved_words = symbol_table.reserved_words ]_vars

(* a declaration was refused although it asked for another kind than the
   one on record, next to an accepted record of a different name *)
C11_Witness ==
  /\ call.op = "declare"
  /\ ret = PyBool(FALSE)
  /\ call.nombre \in DOMAIN symbol_table.symbols
  /\ symbol_table.symbols[call.nombre].tipo_entidad # call.tipo_entidad
  /\ Cardinality(DOMAIN symbol_table.symbols) >= 2

(* C12: across any declare / lookup / is_reserved call a declared name stays
   declared, its single record is filed under its own name and keeps the
   kind, line and column of the declaration that created it. *)
C12_WriteOnce ==
  [][ \A n \in DOMAIN symbol_table.symbols :
        /\ n \in DOMAIN symbol_table'.symbols
        /\ symbol_table'.symbols[n].nombre = n
        /\ symbol_table'.symbols[n].tipo_entidad = symbol_table.symbols[n].tipo_entidad
        /\ symbol_table'.symbols[n].linea = symbol_table.symbols[n].linea
        /\ symbol_table'.symbols[n].columna = symbol_table.symbols[n].columna ]_vars

(* a later declaration of a held name, on another line, was refused and the
   record still carries the earlier line *)
C12_Witness ==
  /\ call.op = "declare"
  /\ ret = PyBool(FALSE)
  /\ call.nombre \in DOMAIN symbol_table.symbols
  /\ symbol_table.symbols[call.nombre].linea < call.linea

(* the identifiers that are a keyword in some letter case *)
KeywordSpellings == {"crear", "Crear", "CREAR", "Lista", "lista"}

(* C15: whatever names the table holds, is_reserved answers true exactly
   for the identifiers that spell one of CREAR, OBJETO, LISTA, CON,
   ELEMENTOS, VERDADERO, FALSO in some letter case. *)
C15_ReservedIffKeyword ==
  /\ \A n \in Identifiers : is_reserved(symbol_table, n) <=> n \in KeywordSpellings
  /\ call.op = "is_reserved" => ret = PyBool(call.nombre \in KeywordSpellings)

(* is_reserved answered true for a lower-case keyword, and the table holds
   both that name and a name that is not reserved *)
C15_Witness ==
  /\ call.op = "is_reserved"
  /\ call.nombre = "crear"
  /\ ret = PyBool(TRUE)
  /\ {"crear", "A"} \subseteq DOMAIN symbol_table.symbols
  /\ ~is_reserved(symbol_table, "A")

(* ------------------------------------------------------------------ *)
(* Semantic analysis and the gates of a run                             *)
(* ------------------------------------------------------------------ *)

(* the semantic walk of the run has been made *)
AnalysisOver ==
  /\ ppc \in {"ir", "json", "summary", "done"}
  /\ error_listener._lexer_errors + error_listener._parser_errors = 0

CommandsNamed(n) == { c \in DOMAIN tree : tree[c].nombre = n }

First(S) == CHOOSE c \in S : \A d \in S : c <= d

KindOf(cmd) == IF cmd.rule = "crear_objeto_cmd" THEN "objeto" ELSE "lista"

(* the type of the last literal given to key k in an object command *)
LastTypeOf(cmd, k) ==
  LET last == CHOOSE i \in DOMAIN cmd.body :
                /\ cmd.body[i].clave = k
                /\ \A j \in DOMAIN cmd.body : cmd.body[j].clave = k => j <= i
  IN  get_value_type(cmd.body[last].valor)

(* the metadata one command alone gives its entity *)
MetaOf(cmd) ==
  IF cmd.rule = "crear_objeto_cmd"
  THEN [propiedades |->
          [k \in { cmd.body[i].clave : i \in DOMAIN cmd.body } |-> LastTypeOf(cmd, k)]]
  ELSE [tipos_elementos |-> [i \in DOMAIN cmd.body |-> get_value_type(cmd.body[i])]]

(* the record the first command naming n alone produces *)
RecordOfFirst(n) ==
  LET c == First(CommandsNamed(n))
  IN  [nombre |-> n, tipo_entidad |-> KindOf(tree[c]), linea |-> tree[c].line,
       columna |-> tree[c].column + 1, metadatos |-> MetaOf(tree[c])]

SemanticMessages ==
  { i \in DOMAIN error_listener.error_messages :
      error_listener.error_messages[i].tipo = "Semantico" }

MessagesNaming(n) ==
  { i \in SemanticMessages : error_listener.error_messages[i].detail.nombre = n }

(* C13: when two commands of a script declare the same (not reserved) name,
   of the same kind or not, exactly one Semantic diagnostic is reported for
   it and the table holds for that name the record of the first command with
   the metadata of the first command alone. *)
C13_RedeclarationKeepsFirst ==
  AnalysisOver =>
    \A n \in TreeNames \ KeywordSpellings :
      Cardinality(CommandsNamed(n)) = 2 =>
        /\ Cardinality(MessagesNaming(n)) = 1
        /\ \A i \in MessagesNaming(n) :
             error_listener.error_messages[i].detail.texto = "Redefinicion del simbolo"
        /\ n \in DOMAIN symbol_table.symbols
        /\ symbol_table.symbols[n] = RecordOfFirst(n)
        /\ symbols_debug_info[n].metadatos = MetaOf(tree[First(CommandsNamed(n))])

(* an object and then an object of the same name, the second one with a
   property, were analysed *)
C13_Witness ==
  /\ ppc = "done"
  /\ AnalysisOver
  /\ Len(tree) = 2
  /\ tree[1].nombre = "A" /\ tree[2].nombre = "A"
  /\ tree[1].rule = "crear_objeto_cmd" /\ tree[2].rule = "crear_objeto_cmd"
  /\ tree[1].body # tree[2].body
  /\ error_listener._semantic_errors = 1

(* C14: a command whose name spells a keyword in some letter case never
   puts that name in the symbol table, gets a Semantic diagnostic on its
   line saying the name is reserved, and leaves every record's metadata as
   the declaring command alone made it. *)
C14_ReservedRejected ==
  /\ \A n \in DOMAIN symbol_table.symbols : n \notin KeywordSpellings
  /\ AnalysisOver =>
       /\ \A c \in DOMAIN tree :
            tree[c].nombre \in KeywordSpellings =>
              \E i \in MessagesNaming(tree[c].nombre) :
                /\ error_listener.error_messages[i].line = tree[c].line
                /\ error_listener.error_messages[i].detail.texto = "es una palabra reservada"
       /\ \A n \in DOMAIN symbol_table.symbols :
            symbol_table.symbols[n].metadatos = MetaOf(tree[First(CommandsNamed(n))])

(* an accepted list followed by a list named by a lower-case keyword *)
C14_Witness ==
  /\ ppc = "done"
  /\ AnalysisOver
  /\ Len(tree) = 2
  /\ tree[1].nombre = "A" /\ tree[1].rule = "crear_lista_cmd"
  /\ tree[2].nombre = "crear" /\ tree[2].rule = "crear_lista_cmd"
  /\ DOMAIN symbol_table.symbols = {"A"}
  /\ error_listener._semantic_errors = 1

(* C16: once a Semantic diagnostic has been reported, the IR builder and
   the optimizer never run, the reported IR is empty and no JSON is
   produced, wherever in the script the diagnostic arose. *)
C16_SemanticGate ==
  error_listener._semantic_errors > 0 =>
    /\ ppc \notin {"ir", "json"}
    /\ ir_builder = IRBuilderListener
    /\ ir_output = <<>>
    /\ json_output_string = JsonNone

(* the run returned after a valid command and then a rejected one *)
C16_Witness ==
  /\ ppc = "done"
  /\ Len(tree) = 2
  /\ tree[1].nombre = "A"
  /\ tree[2].nombre = "A"
  /\ error_listener._semantic_errors = 1
  /\ "A" \in DOMAIN symbols_debug_info

(* C17: once the lexer or the parser has reported a diagnostic, the
   semantic analyzer never runs: the semantic count is 0, the symbol-table
   debug view and the IR are empty and there is no JSON. *)
C17_SyntaxGate ==
  error_listener._lexer_errors + error_listener._parser_errors > 0 =>
    /\ ppc \notin {"semantic", "ir", "json"}
    /\ error_listener._semantic_errors = 0
    /\ symbol_table = SymbolTable
    /\ symbols_debug_info = EmptyDict
    /\ ir_builder = IRBuilderListener
    /\ ir_output = <<>>
    /\ json_output_string = JsonNone

(* the run returned after a parser diagnostic *)
C17_Witness ==
  /\ ppc = "done"
  /\ error_listener._parser_errors > 0
  /\ error_listener._lexer_errors = 0
  /\ error_summary_output # <<>>

(* C18: when a run returns, its error summary is empty exactly when it
   produced JSON. *)
C18_SummaryEmptyIffJson ==
  ppc = "done" => (error_summary_output = <<>> <=> json_output_string # JsonNone)

(* an object command gives key k two literals of different types *)
RepeatsWithOtherType(cmd, k) ==
  /\ cmd.rule = "crear_objeto_cmd"
  /\ \E i, j \in DOMAIN cmd.body :
       /\ i < j
       /\ cmd.body[i].clave = k
       /\ cmd.body[j].clave = k
       /\ get_value_type(cmd.body[i].valor) # get_value_type(cmd.body[j].valor)

(* C19: a run over a script in which an object command gives the same key
   twice with different types reports a Semantic diagnostic naming the key
   and produces no JSON. *)
C19_InconsistentKeyRejected ==
  (ppc = "done" /\ AnalysisOver) =>
    \A c \in DOMAIN tree : \A k \in {"edad", "activo"} :
      RepeatsWithOtherType(tree[c], k) =>
        /\ MessagesNaming(k) # {}
        /\ json_output_string = JsonNone

(* an object command gives key k a literal that is not of type tipo *)
GivesOtherThan(cmd, k, tipo) ==
  /\ cmd.rule = "crear_objeto_cmd"
  /\ \E i \in DOMAIN cmd.body :
       cmd.body[i].clave = k /\ get_value_type(cmd.body[i].valor) # tipo

(* C20: a run over a script in which an object command gives edad a value
   that is not a NUMBER, or activo a value that is not a BOOLEAN, reports a
   Semantic diagnostic naming the property and produces no JSON. *)
C20_DomainRuleRejected ==
  (ppc = "done" /\ AnalysisOver) =>
    \A c \in DOMAIN tree :
      /\ GivesOtherThan(tree[c], "edad", "NUMBER") =>
           MessagesNaming("edad") # {} /\ json_output_string = JsonNone
      /\ GivesOtherThan(tree[c], "activo", "BOOLEAN") =>
           MessagesNaming("activo") # {} /\ json_output_string = JsonNone

(* ------------------------------------------------------------------ *)
(* Claims on the two back ends and on the listeners (C21 .. C30)        *)
(* ------------------------------------------------------------------ *)

(* the run returned and no diagnostic of any kind was recorded *)
ZeroDiagnostics == ppc = "done" /\ error_listener.error_messages = <<>>

(* an object command gives some key more than once *)
RepeatsKey(cmd) ==
  /\ cmd.rule = "crear_objeto_cmd"
  /\ \E i, j \in DOMAIN cmd.body : i < j /\ cmd.body[i].clave = cmd.body[j].clave

(* the environment left by executing the code emitted for the reported IR
   (tests/test_codegen.py 17-27) *)
Replayed == exec(generate_python_from_ir(ir_output))

(* C21: for a run with zero diagnostics, executing the code emitted for
   the reported IR raises nothing and binds every declared entity to the
   value the JSON document gives it: the same key-to-value mapping for an
   object, the same element sequence for a list, repeated keys included. *)
C21_ReplayEqualsJson ==
  ZeroDiagnostics =>
    /\ ~Replayed.raised
    /\ json_output_string # JsonNone
    /\ DOMAIN Replayed.env = DOMAIN symbol_table.symbols
    /\ DOMAIN json_output_string.doc = DOMAIN symbol_table.symbols
    /\ \A n \in DOMAIN symbol_table.symbols : Replayed.env[n] = json_output_string.doc[n]

(* a returned run over an object with a repeated key, whose values differ,
   followed by a list *)
C21_Witness ==
  /\ ZeroDiagnostics
  /\ Len(tree) = 2
  /\ RepeatsWithOtherType(tree[1], "edad")
  /\ tree[2].rule = "crear_lista_cmd" /\ Len(tree[2].body) = 1
  /\ Replayed.env[tree[1].nombre] = PyDict([edad |-> PyStr("a")])

(* the type tag and the native value of each literal of the explored trees *)
LiteralTag(valor) ==
  CASE valor = Token("NUMERO_ENTERO", <<"3", "0">>) -> "NUMBER"
    [] valor = Token("STRING", <<"\"", "a", "\"">>) -> "STRING"
    [] valor = Token("KW_VERDADERO", <<"V">>) -> "BOOLEAN"

LiteralValue(valor) ==
  CASE valor = Token("NUMERO_ENTERO", <<"3", "0">>) -> PyInt(30)
    [] valor = Token("STRING", <<"\"", "a", "\"">>) -> PyStr("a")
    [] valor = Token("KW_VERDADERO", <<"V">>) -> PyBool(TRUE)

(* one command written out: its creation, then one write per property or
   one append per element, in source order *)
Listing(cmd) ==
  IF cmd.rule = "crear_objeto_cmd"
  THEN << Instr("IR_CREATE_OBJECT", << cmd.nombre >>) >> \o
       [i \in 1..Len(cmd.body) |->
          Instr("IR_SET_PROPERTY", << cmd.nombre, cmd.body[i].clave,
                                      LiteralTag(cmd.body[i].valor),
                                      LiteralValue(cmd.body[i].valor) >>)]
  ELSE << Instr("IR_CREATE_LIST", << cmd.nombre >>) >> \o
       [i \in 1..Len(cmd.body) |->
          Instr("IR_APPEND_LIST", << cmd.nombre, LiteralTag(cmd.body[i]),
                                     LiteralValue(cmd.body[i]) >>)]

RECURSIVE Listings(_, _)
Listings(t, n) == IF n = 0 THEN <<>> ELSE Listings(t, n - 1) \o Listing(t[n])

(* C22: for a run with zero diagnostics over a script in which no object
   command repeats a key, the reported IR is the commands written out in
   source order: per command one creation, then exactly one SET_PROPERTY
   per property or one APPEND_LIST per element, in source order, each with
   the literal's type tag and native value. *)
C22_ReportedIRListsCommands ==
  (ZeroDiagnostics /\ \A c \in DOMAIN tree : ~RepeatsKey(tree[c])) =>
    ir_output = Listings(tree, Len(tree))

(* a returned run over a list of two elements followed by an object, and
   one over an object with two different keys *)
C22_Witness ==
  /\ ZeroDiagnostics
  /\ \A c \in DOMAIN tree : ~RepeatsKey(tree[c])
  /\ \/ /\ Len(tree) = 2
        /\ tree[1].rule = "crear_lista_cmd" /\ Len(tree[1].body) = 2
        /\ tree[2].rule = "crear_objeto_cmd"
        /\ Len(ir_output) = 5
     \/ /\ Len(tree) = 1
        /\ tree[1].rule = "crear_objeto_cmd" /\ Len(tree[1].body) = 2
        /\ Len(ir_output) = 3

(* the index of the last property of an object command that gives key k *)
LastGiving(cmd, k) ==
  CHOOSE i \in DOMAIN cmd.body :
    /\ cmd.body[i].clave = k
    /\ \A j \in DOMAIN cmd.body : cmd.body[j].clave = k => j <= i

KeysOf(cmd) == { cmd.body[i].clave : i \in DOMAIN cmd.body }

(* C23: once the semantic walk of a script is over, the metadata of each
   declared object maps exactly the keys of its command, each to the type
   tag of the last value given for it, and the elementTypes of each
   declared list is the sequence of the type tags of its elements in
   source order, as long as the element sequence. *)
C23_MetadataRecordsTypes ==
  AnalysisOver =>
    \A n \in DOMAIN symbol_table.symbols :
      LET cmd == tree[First(CommandsNamed(n))]
          meta == symbol_table.symbols[n].metadatos
      IN  IF cmd.rule = "crear_objeto_cmd"
          THEN /\ DOMAIN meta.propiedades = KeysOf(cmd)
               /\ \A k \in KeysOf(cmd) :
                    meta.propiedades[k] = LiteralTag(cmd.body[LastGiving(cmd, k)].valor)
          ELSE /\ Len(meta.tipos_elementos) = Len(cmd.body)
               /\ \A i \in DOMAIN cmd.body :
                    meta.tipos_elementos[i] = LiteralTag(cmd.body[i])

(* the walk is over for a list of two elements of different types followed
   by an object, both declared *)
C23_Witness ==
  /\ AnalysisOver
  /\ Len(tree) = 2
  /\ tree[1].rule = "crear_lista_cmd" /\ Len(tree[1].body) = 2
  /\ LiteralTag(tree[1].body[1]) # LiteralTag(tree[1].body[2])
  /\ tree[2].rule = "crear_objeto_cmd"
  /\ DOMAIN symbol_table.symbols = {tree[1].nombre, tree[2].nombre}
  /\ tree[1].nombre # tree[2].nombre
  /\ Len(symbol_table.symbols[tree[1].nombre].metadatos.tipos_elementos) = 2

(* the semantic analyzer is about to receive a command-exit, or a property
   or element event *)
AtSemanticExit ==
  /\ ppc = "semantic" /\ walk # <<>>
  /\ Head(walk).ev \in {"exitCrear_objeto_cmd", "exitCrear_lista_cmd"}

AtSemanticItem ==
  /\ ppc = "semantic" /\ walk # <<>>
  /\ Head(walk).ev \in {"enterPropiedad", "enterValor"}

(* the symbol named n was declared by the command that encloses the
   pending event *)
DeclaredByEnclosing(n) ==
  /\ n = Ctx.nombre
  /\ n \in DOMAIN symbol_table.symbols
  /\ symbol_table.symbols[n].linea = Ctx.line

(* C24: in the semantic analyzer every command-exit leaves currentEntity
   none, and a property or element event declares and removes no symbol,
   changes nothing but the metadata of the symbol declared by the command
   that encloses it, and leaves every other symbol as it was. *)
C24_CurrentEntityScoped ==
  [][ /\ AtSemanticExit => current_symbol_name' = NoneName
      /\ AtSemanticItem =>
           /\ DOMAIN symbol_table'.symbols = DOMAIN symbol_table.symbols
           /\ \A n \in DOMAIN symbol_table.symbols :
                IF DeclaredByEnclosing(n)
                THEN symbol_table'.symbols[n] =
                       [symbol_table.symbols[n] EXCEPT
                          !.metadatos = symbol_table'.symbols[n].metadatos]
                ELSE symbol_table'.symbols[n] = symbol_table.symbols[n] ]_vars

(* a property of the second command has been recorded while the symbol of
   the first command is in the table with its metadata *)
C24_Witness ==
  /\ ppc = "semantic"
  /\ Len(tree) = 2
  /\ tree[1].nombre # tree[2].nombre
  /\ DOMAIN symbol_table.symbols = {tree[1].nombre, tree[2].nombre}
  /\ current_symbol_name = tree[2].nombre
  /\ tree[2].rule = "crear_objeto_cmd"
  /\ symbol_table.symbols[tree[2].nombre].metadatos # MetaObjeto
  /\ symbol_table.symbols[tree[1].nombre].metadatos = MetaOf(tree[1])

(* the commands the analyzer refuses: a reserved name, or a name an earlier
   command declared *)
Refused ==
  { c \in DOMAIN tree :
      \/ tree[c].nombre \in KeywordSpellings
      \/ \E d \in DOMAIN tree : d < c /\ tree[d].nombre = tree[c].nombre }

RepeatedKeys(cmd) ==
  IF cmd.rule = "crear_objeto_cmd"
  THEN { k \in KeysOf(cmd) : \E i, j \in DOMAIN cmd.body :
                                i < j /\ cmd.body[i].clave = k /\ cmd.body[j].clave = k }
  ELSE {}

(* C25: a key repeated inside one object command is not diagnosed: no
   Semantic diagnostic names the key, the semantic-error count is the
   number of refused commands and nothing more, the metadata of the
   declared object holds the type of the later value, and when no command
   is refused the IR and the JSON are produced with the later value. *)
C25_RepeatedKeySilent ==
  (ppc = "done" /\ AnalysisOver) =>
    \A c \in DOMAIN tree : \A k \in RepeatedKeys(tree[c]) :
      LET cmd == tree[c]
          last == cmd.body[LastGiving(cmd, k)].valor
      IN  /\ MessagesNaming(k) = {}
          /\ error_listener._semantic_errors = Cardinality(Refused)
          /\ c \notin Refused =>
               symbol_table.symbols[cmd.nombre].metadatos.propiedades[k] = LiteralTag(last)
          /\ Refused = {} =>
               /\ json_output_string # JsonNone
               /\ json_output_string.doc[cmd.nombre].props[k] = LiteralValue(last)
               /\ \E i \in DOMAIN ir_output :
                    ir_output[i] = Instr("IR_SET_PROPERTY",
                                         << cmd.nombre, k, LiteralTag(last),
                                            LiteralValue(last) >>)

(* a returned run over one object command that gives edad a number and
   then a string *)
C25_Witness ==
  /\ ppc = "done"
  /\ Len(tree) = 1
  /\ RepeatsWithOtherType(tree[1], "edad")
  /\ Len(tree[1].body) = 2
  /\ LiteralTag(tree[1].body[2].valor) = "STRING"
  /\ error_listener._semantic_errors = 0
  /\ json_output_string.doc[tree[1].nombre] = PyDict([edad |-> PyStr("a")])
  /\ Len(ir_output) = 2

(* instruction i of x is a write and an earlier instruction of x creates
   its target with the kind the write needs *)
CreatedBefore(x, i) ==
  \E j \in 1..(i - 1) :
    x[j] = Instr(IF IsSet(x[i]) THEN "IR_CREATE_OBJECT" ELSE "IR_CREATE_LIST",
                 << x[i].args[1] >>)

(* C26: at every point of an IR builder walk, each SET_PROPERTY of the
   accumulated list comes after a CREATE_OBJECT of the same entity name in
   the list, and each APPEND_LIST after a CREATE_LIST of the same name. *)
C26_BuilderCreatesFirst ==
  \A i \in DOMAIN ir_builder.ir_instructions :
    (IsSet(ir_builder.ir_instructions[i]) \/ IsAppend(ir_builder.ir_instructions[i])) =>
      CreatedBefore(ir_builder.ir_instructions, i)

(* the walk is under way and the list holds a write and an append *)
C26_Witness ==
  /\ ppc = "ir"
  /\ walk # <<>>
  /\ \E i, j \in DOMAIN ir_builder.ir_instructions :
       IsSet(ir_builder.ir_instructions[i]) /\ IsAppend(ir_builder.ir_instructions[j])

(* the builder with its current list replaced by l *)
WithCurrentList(l) == [ir_builder EXCEPT !.current_list_name = l]

(* the elements of the list commands of the tree, and those whose exitValor
   the IR walk has not delivered yet *)
ListElements ==
  { <<c, i>> \in (DOMAIN tree) \X (1..MaxNodes) :
      tree[c].rule = "crear_lista_cmd" /\ i \in DOMAIN tree[c].body }

PendingElements ==
  { p \in ListElements :
      \E w \in DOMAIN walk : walk[w] = Event("exitValor", p[1], p[2]) }

(* C27: exitValor of the IR builder on a value whose parent is a property
   appends nothing, whatever the current list is; on a value whose parent
   is the element sequence it appends exactly one APPEND_LIST to the
   current list when one is set and nothing otherwise; and during a walk
   the APPEND_LIST instructions of the list are as many as the list
   elements already left. *)
C27_AppendOnlyForElements ==
  ppc = "ir" =>
    /\ Cardinality({ i \in DOMAIN ir_builder.ir_instructions :
                       IsAppend(ir_builder.ir_instructions[i]) })
         = Cardinality(ListElements \ PendingElements)
    /\ (walk # <<>> /\ Head(walk).ev = "exitValor") =>
         \A l \in TreeNames \cup {NoneName} :
           LET b == WithCurrentList(l)
               r == exitValor(b, tree, Head(walk))
               valor == valor_ctx(tree, Head(walk))
           IN  /\ r.current_list_name = l /\ r.current_obj_name = b.current_obj_name
               /\ IF Ctx.rule = "crear_lista_cmd" /\ l # NoneName
                  THEN r.ir_instructions =
                         Append(b.ir_instructions,
                                Instr("IR_APPEND_LIST",
                                      << l, LiteralTag(valor), LiteralValue(valor) >>))
                  ELSE r.ir_instructions = b.ir_instructions

(* the builder is about to leave the value of a property after a list
   command whose elements were appended *)
C27_Witness ==
  /\ ppc = "ir"
  /\ walk # <<>> /\ Head(walk).ev = "exitValor"
  /\ Ctx.rule = "crear_objeto_cmd"
  /\ Cardinality(ListElements) = 2
  /\ PendingElements = {}
  /\ Len(ir_builder.ir_instructions) = 4

(* the IR walk is between two commands: before the first, after a
   command-exit, or over *)
BetweenCommands ==
  \/ ppc # "ir"
  \/ walk = <<>>
  \/ Head(walk).ev \in {"enterCrear_objeto_cmd", "enterCrear_lista_cmd"}

(* C28: in the IR builder currentObject and currentList are never both
   set, and both are none after every command-exit; inside a command the
   one of its kind names it. *)
C28_OneCurrentContainer ==
  /\ ir_builder.current_obj_name = NoneName \/ ir_builder.current_list_name = NoneName
  /\ BetweenCommands =>
       ir_builder.current_obj_name = NoneName /\ ir_builder.current_list_name = NoneName
  /\ ~BetweenCommands =>
       IF Ctx.rule = "crear_objeto_cmd"
       THEN ir_builder.current_obj_name = Ctx.nombre
       ELSE ir_builder.current_list_name = Ctx.nombre

(* the builder is inside an object command that follows a list command *)
C28_Witness ==
  /\ ppc = "ir"
  /\ ir_builder.current_obj_name # NoneName
  /\ ir_builder.current_list_name = NoneName
  /\ Len(ir_builder.ir_instructions) >= 3
  /\ ir_builder.ir_instructions[1].opcode = "IR_CREATE_LIST"

(* C29: diagnostics are kept in arrival order: a step never removes or
   changes a recorded message and adds at most one, at the end of the
   list, and every lexical, syntactic or semantic diagnostic counted by a
   step adds one, also when an identical message is already in the list. *)
C29_DiagnosticsAppendOnly ==
  [][ LET old == error_listener.error_messages
          new == error_listener'.error_messages
          counted == get_total_errors(error_listener') - get_total_errors(error_listener)
      IN  /\ Len(old) <= Len(new) /\ Len(new) <= Len(old) + 1
          /\ SubSeq(new, 1, Len(old)) = old
          /\ counted \in {0, 1}
          /\ counted = 1 => Len(new) = Len(old) + 1 ]_vars

(* two identical diagnostics are in the list *)
C29_Witness ==
  /\ Len(error_listener.error_messages) = 2
  /\ error_listener.error_messages[1] = error_listener.error_messages[2]
  /\ get_total_errors(error_listener) = 2

(* the indices of x that phase 1 is to keep: every instruction that is not
   a SET_PROPERTY, and every SET_PROPERTY that no later SET_PROPERTY of the
   same object and key follows *)
KeptByPhase1(x) ==
  { i \in DOMAIN x :
      IsSet(x[i]) =>
        ~\E j \in DOMAIN x :
           /\ j > i /\ IsSet(x[j])
           /\ x[j].args[1] = x[i].args[1]
           /\ x[j].args[2] = x[i].args[2] }

(* C30: phase 1 returns the subsequence of its input made of every
   instruction that is not a SET_PROPERTY and of every SET_PROPERTY that no
   later SET_PROPERTY of the same (objectName, key) pair follows, in input
   order; writes that differ in the object or in the key never eliminate
   one another. *)
C30_Phase1Subsequence ==
  pc = "phase2" => optimized = Pick(ir_instructions, KeptByPhase1(ir_instructions))

(* phase 1 dropped an overwritten write and kept a write of the same key
   on another object *)
C30_Witness ==
  /\ pc = "phase2"
  /\ Len(ir_instructions) = 3
  /\ Len(optimized) = 2
  /\ IsSet(optimized[1]) /\ IsSet(optimized[2])
  /\ optimized[1].args[1] # optimized[2].args[1]
  /\ optimized[1].args[2] = optimized[2].args[2]

(* ------------------------------------------------------------------ *)
(* Claims C31 .. C40                                                    *)
(* ------------------------------------------------------------------ *)

(* the operations of x whose target no instruction of x creates, in the
   order of x *)
Orphans(x) ==
  Pick(x, {i \in DOMAIN x : IsOperation(x[i]) /\ x[i].args[1] \notin Created(x)})

(* the orphans of x are in y once each and in the order of x, each after
   every creation of y and after every operation of y on a created name,
   and y holds every operation of x *)
OrphansLast(x, y) ==
  LET orphan(instr) == IsOperation(instr) /\ instr.args[1] \notin Created(x)
  IN  /\ SelectSeq(y, orphan) = Orphans(x)
      /\ \A i, j \in DOMAIN y :
           (orphan(y[i]) /\ (IsCreation(y[j]) \/ (IsOperation(y[j]) /\ ~orphan(y[j]))))
             => j < i
      /\ \A i \in DOMAIN x : IsOperation(x[i]) => \E k \in DOMAIN y : y[k] = x[i]

(* C31 as stated: phase 2 emits the operations whose target has no creation
   in its input after all creations and their groups, once each and in
   their original relative order, and drops no operation, whatever the
   input of phase 2 is. *)
C31_OrphansLast ==
  Returned => OrphansLast(Surviving(ir_instructions), result)

(* C31 as amended: over the four known opcodes phase 2 emits the
   operations whose target has no creation in its input after all
   creations and their groups, once each and in their original relative
   order, and drops no operation; when its input holds an unknown opcode
   it returns the input as it is, so that the orphans stay where they were
   and again no operation is dropped or repeated. *)
C31_OrphansLastWhenGrouping ==
  Returned =>
    IF HasOther(ir_instructions)
    THEN result = Surviving(ir_instructions)
    ELSE OrphansLast(Surviving(ir_instructions), result)

(* two orphans were moved behind a creation *)
C31_Witness ==
  /\ pc = "returned"
  /\ ~HasOther(ir_instructions)
  /\ Len(Orphans(ir_instructions)) = 2
  /\ IsCreation(result[1])
  /\ result # ir_instructions

(* the commands whose name is not reserved and was declared by an earlier
   command *)
Redefinitions ==
  { c \in DOMAIN tree :
      /\ tree[c].nombre \notin KeywordSpellings
      /\ \E d \in DOMAIN tree : d < c /\ tree[d].nombre = tree[c].nombre }

(* the diagnostics reported on the line of command c *)
MessagesOnLine(c) ==
  { i \in SemanticMessages : error_listener.error_messages[i].line = tree[c].line }

(* C32: each command that declares again a name an earlier command
   declared gets its own redefinition diagnostic, and that diagnostic
   names the kind and the line of the first command of that name, also
   when a rejected command of that name lies in between. *)
C32_RedefinitionNamesFirst ==
  AnalysisOver =>
    \A c \in Redefinitions :
      LET first == tree[First(CommandsNamed(tree[c].nombre))]
      IN  /\ Cardinality(MessagesOnLine(c)) = 1
          /\ \A i \in MessagesOnLine(c) :
               error_listener.error_messages[i].detail =
                 Detail("Redefinicion del simbolo", tree[c].nombre,
                        KindOf(first), first.line)

(* an object, then a list and a third command of the same name: the two
   diagnostics name the object of line 1 *)
C32_Witness ==
  /\ ppc = "done"
  /\ Len(tree) = 3
  /\ tree[1].nombre = tree[2].nombre /\ tree[2].nombre = tree[3].nombre
  /\ tree[1].rule = "crear_objeto_cmd" /\ tree[2].rule = "crear_lista_cmd"
  /\ Redefinitions = {2, 3}
  /\ Len(error_listener.error_messages) = 2
  /\ error_listener.error_messages[2].detail.tipo_previo = "objeto"
  /\ error_listener.error_messages[2].detail.linea_previa = 1

(* the last message of a listener *)
LastMessage(listener) == listener.error_messages[Len(listener.error_messages)]

(* C33: a lexical or syntactic report at 0-indexed column k is recorded
   with column k + 1; every semantic diagnostic carries the 0-indexed
   start column of its command plus one; and the record of a declared
   entity stores that same column of its declaring command: one shift on
   each path. *)
C33_ColumnsOneIndexed ==
  /\ ppc \in {"tokenize", "parse"} =>
       \A lexico \in BOOLEAN, k \in 0..1, msg \in LexerMsgs \cup ParserMsgs :
         LET r == syntaxError(error_listener, lexico, 1, k, msg)
         IN  /\ Len(r.error_messages) = Len(error_listener.error_messages) + 1
             /\ LastMessage(r).column = k + 1
  /\ \A i \in DOMAIN error_listener.error_messages :
       error_listener.error_messages[i].tipo \in {"Lexico", "Sintactico"} =>
         error_listener.error_messages[i].column \in 1..2
  /\ \A c \in DOMAIN tree : \A i \in MessagesOnLine(c) :
       error_listener.error_messages[i].column = tree[c].column + 1
  /\ \A n \in DOMAIN symbol_table.symbols :
       symbol_table.symbols[n].columna = tree[First(CommandsNamed(n))].column + 1

(* a run declared a name in column 0 and refused its redefinition in
   column 1 *)
C33_Witness ==
  /\ ppc = "done"
  /\ Len(tree) = 2
  /\ tree[2].column = 1
  /\ Redefinitions = {2}
  /\ LastMessage(error_listener).column = 2
  /\ symbol_table.symbols[tree[1].nombre].columna = 1

(* the objects of a run are as the first call of a process finds them *)
AsFirstCall ==
  /\ error_listener = CustomErrorListener
  /\ symbol_table = SymbolTable
  /\ tree = <<>>
  /\ current_symbol_name = NoneName
  /\ ir_builder = IRBuilderListener
  /\ ir_output = <<>>
  /\ json_output_string = JsonNone
  /\ symbols_debug_info = EmptyDict
  /\ error_summary_output = <<>>
  /\ walk = <<>>

(* C34: a call of analyze_and_transform that follows a returned call,
   failed or not, starts with every object of the run as the first call of
   the process finds it, so that its IR, symbol-table view, diagnostics
   and JSON are those the same input gives when it is run first. *)
C34_RunsIndependent ==
  [][ (ppc = "done" /\ ppc' # "done") => (ppc' = "tokenize" /\ AsFirstCall') ]_vars

(* a run that follows another run returned JSON without any diagnostic *)
C34_Witness ==
  /\ after_other_run
  /\ ZeroDiagnostics
  /\ json_output_string # JsonNone
  /\ Len(tree) = 2

(* the production nodes of a tree: each command, each property with its
   value, each element *)
NodeCount(t) ==
  LET n(c) == IF t[c].rule = "crear_objeto_cmd"
              THEN 1 + 2 * Len(t[c].body) ELSE 1 + Len(t[c].body)
      RECURSIVE sum(_)
      sum(k) == IF k = 0 THEN 0 ELSE sum(k - 1) + n(k)
  IN  sum(Len(t))

(* w is what is left of s after some of its first elements *)
IsSuffix(w, s) ==
  /\ Len(w) <= Len(s)
  /\ w = SubSeq(s, Len(s) - Len(w) + 1, Len(s))

(* C35: every call of optimize_ir on a finite instruction sequence returns
   a sequence, and every run over a finite parse tree returns; a walk is
   one enter and one exit event per production node, of which each
   listener receives those it overrides, each once and in order, until
   none is left. *)
C35_Terminates ==
  /\ (pc = "call") ~> (pc = "returned" /\ result \in Seq(Instructions))
  /\ [](ppc = "semantic" =>
          /\ Len(walk_events(tree, Len(tree))) = 2 * NodeCount(tree)
          /\ IsSuffix(walk, callbacks(tree, SemanticCallbacks)))
  /\ [](ppc = "ir" => IsSuffix(walk, callbacks(tree, IRCallbacks)))
  /\ (ppc = "semantic") ~> (ppc \in {"ir", "summary"} /\ walk = <<>>)
  /\ (ppc = "ir") ~> (ppc = "json" /\ walk = <<>>)

(* the run over a tree of two commands returned after both walks *)
C35_Witness ==
  /\ ppc = "done"
  /\ Len(tree) = 2
  /\ NodeCount(tree) = 5
  /\ ir_output # <<>>
  /\ walk = <<>>

(* how many times e occurs in s *)
Occurrences(s, e) == Cardinality({ i \in DOMAIN s : s[i] = e })

(* C36: every instruction of the output of optimize_ir occurs in the input
   and occurs in the output no more times than in the input, so that the
   output is never longer than the input, also when a name is created more
   than once. *)
C36_NoDuplication ==
  pc = "returned" =>
    /\ \A i \in DOMAIN result :
          /\ Occurrences(ir_instructions, result[i]) > 0
          /\ Occurrences(result, result[i]) <= Occurrences(ir_instructions, result[i])
    /\ Len(result) <= Len(ir_instructions)

(* instruction i of x is a write and an earlier instruction of x creates
   an entity of its target's name *)
CreationBefore(x, i) ==
  \E j \in 1..(i - 1) : IsCreation(x[j]) /\ x[j].args[1] = x[i].args[1]

CreateBeforeWrite(x) ==
  \A i \in DOMAIN x : IsOperation(x[i]) => CreationBefore(x, i)

(* C37: if in the input of optimize_ir every SET_PROPERTY and APPEND_LIST
   is preceded by a creation instruction for the same entity name, then
   the same holds in the output. *)
C37_CreateBeforeWrite ==
  pc = "returned" =>
    (CreateBeforeWrite(ir_instructions) => CreateBeforeWrite(result))

(* writes that follow their creations were moved by the grouping *)
C37_Witness ==
  /\ pc = "returned"
  /\ CreateBeforeWrite(ir_instructions)
  /\ \E i \in DOMAIN ir_instructions : IsOperation(ir_instructions[i])
  /\ Len(result) = Len(ir_instructions)
  /\ result # ir_instructions

(* the opcode that creates an entity of a kind *)
CreationOpcode(tipo_entidad) ==
  IF tipo_entidad = "objeto" THEN "IR_CREATE_OBJECT" ELSE "IR_CREATE_LIST"

(* the instructions of x that create an entity named n *)
CreationsOf(x, n) == { i \in DOMAIN x : IsCreation(x[i]) /\ x[i].args[1] = n }

(* the IR walk of the run is over, or was not made *)
BuilderDone == ppc \in {"json", "summary", "done"} \/ (ppc = "ir" /\ walk = <<>>)

(* C38: when the semantic analyzer finished with no semantic diagnostic,
   the list of the IR builder creates each name of the symbol table exactly
   once, with the opcode of the symbol's kind, and creates no other name,
   so that the optimizer receives no two creations of one name. *)
C38_OneCreationPerSymbol ==
  (BuilderDone /\ error_listener._semantic_errors = 0) =>
    LET ir == ir_builder.ir_instructions IN
    /\ \A n \in DOMAIN symbol_table.symbols :
          /\ Cardinality(CreationsOf(ir, n)) = 1
          /\ Occurrences(ir, Instr(CreationOpcode(symbol_table.symbols[n].tipo_entidad),
                                   << n >>)) = 1
    /\ \A i \in DOMAIN ir : IsCreation(ir[i]) => ir[i].args[1] \in DOMAIN symbol_table.symbols
    /\ ppc # "ir" =>
          \A n \in Identifiers : Cardinality(CreationsOf(ir_output, n)) <= 1

(* a run without diagnostics over an object and a list of different names *)
C38_Witness ==
  /\ ppc = "done"
  /\ error_listener.error_messages = <<>>
  /\ Len(tree) = 2
  /\ tree[1].rule = "crear_objeto_cmd"
  /\ tree[2].rule = "crear_lista_cmd"
  /\ DOMAIN symbol_table.symbols = {"A", "B"}
  /\ Cardinality(CreationsOf(ir_builder.ir_instructions, "A")) = 1
  /\ Cardinality(CreationsOf(ir_builder.ir_instructions, "B")) = 1

(* C39: in every state of a run the number of messages of the error
   listener equals the sum of its lexical, syntactic and semantic counters,
   so that get_total_errors() is 0 exactly when the list is empty. *)
C39_MessagesCounted ==
  /\ Len(error_listener.error_messages) = get_total_errors(error_listener)
  /\ get_total_errors(error_listener) = 0 <=> error_listener.error_messages = <<>>

(* C40: the semantic analyzer reports at most one diagnostic per command;
   a command whose name is reserved gets the reserved-word diagnostic alone
   and its name is not declared; after the walk the semantic counter is the
   number of commands whose name is reserved or was declared by an earlier
   command, each of them with one diagnostic and no other command with any. *)
C40_OneDiagnosticPerCommand ==
  /\ \A c \in DOMAIN tree :
        /\ Cardinality(MessagesOnLine(c)) <= 1
        /\ tree[c].nombre \in KeywordSpellings =>
              \A i \in MessagesOnLine(c) :
                error_listener.error_messages[i].detail.texto = "es una palabra reservada"
  /\ DOMAIN symbol_table.symbols \cap KeywordSpellings = {}
  /\ AnalysisOver =>
        /\ error_listener._semantic_errors = Cardinality(Refused)
        /\ \A c \in DOMAIN tree :
              Cardinality(MessagesOnLine(c)) = IF c \in Refused THEN 1 ELSE 0

(* a reserved name after a name declared twice: two diagnostics *)
C40_Witness ==
  /\ ppc = "done"
  /\ Len(tree) = 3
  /\ tree[1].nombre = "A" /\ tree[2].nombre = "A"
  /\ tree[3].nombre \in KeywordSpellings
  /\ Refused = {2, 3}
  /\ error_listener._semantic_errors = 2
  /\ Cardinality(MessagesOnLine(3)) = 1

====
